---- MODULE Spec2Model ----
(***************************************************************************)
(* State-governed sales pipeline of agent-v2 (core/graph.py), its          *)
(* commercial state (schemas/vendor_state.py), the observer's validation   *)
(* (agents/observer.py) and the tool router (core/tool_router.py).         *)
(*                                                                         *)
(* An Optional[T] value is a sequence of length 0 (None) or 1 (the value). *)
(* Amounts are in cents, confidences in hundredths.                        *)
(***************************************************************************)
EXTENDS Integers, Sequences, FiniteSets, TLC

None == <<>>
Some(x) == <<x>>
Get(o) == o[1]
IsNone(o) == o = <<>>

InSeq(x, s) == \E i \in 1..Len(s) : s[i] = x

\* ------------------------------------------------------------------ enums

\* EtapaComercial (vendor_state.py:13-23)
Etapas ==
    {"nuevo", "explorando", "interesado", "cotizando", "negociando",
     "confirmando", "pagando", "completado", "abandonado"}

\* IntencionCliente (vendor_state.py:26-38)
Intenciones ==
    {"saludo", "consulta_producto", "consulta_precio", "consulta_disponibilidad",
     "intencion_compra", "confirmacion_compra", "objecion", "queja", "soporte",
     "despedida", "otro"}

\* TOOL_DEFINITIONS keys (tool_router.py:24-67)
BuiltinTools ==
    {"search_product", "payment", "followup", "media", "crm", "search_knowledge"}

\* ToolRouter.custom_tools of the business: one enabled user-defined tool
\* (tool_router.py:80-97)
CustomTools == {"custom_erp"}

\* Every tool name the interpreter may suggest: the built-in tools, the
\* business' custom tool and a name no registry knows.
ToolNames == BuiltinTools \cup CustomTools \cup {"teleport"}

\* ------------------------------------------------------------ message text

E_PAGO_SIN_CONFIRMADOS == "REGLA: No se puede generar pago sin productos confirmados"
W_PAYMENT_INTENT == "Sugiere payment pero la intención no es confirmacion_compra"
W_LOW_CONFIDENCE == "Confianza muy baja, considerar pedir más información"
W_NO_TOOL == "Indica requiere_tool=true pero no sugiere qué tool"
W_NOT_EXECUTED == "No se pudo ejecutar validación completa"
W_NOT_PARSED == "No se pudo parsear respuesta del validador"
\* what the validator model may write in its own lists
LLM_ERROR == "Respuesta contradice la intención detectada"
LLM_WARNING == "Podría haber más contexto"

\* "confirmados" in s, for the strings of this model
ContainsConfirmados(s) == s \in {E_PAGO_SIN_CONFIRMADOS}

\* ------------------------------------------------------- CommercialState

\* ProductoDetectado (vendor_state.py:41-47)
ProductoDetectado(id, confirmado) == [product_id |-> id, confirmado |-> confirmado]

\* CommercialState (vendor_state.py:58-84); the fields no modelled code reads
\* (cantidades, metodo_pago, orden_generada, payment_link, reglas_*,
\* errores_estado, warnings_estado, puede_avanzar) are left out.
CommercialState(etapa, intencion, detectados, confirmados, total, valido, stamped) ==
    [etapa_comercial |-> etapa,
     intencion_actual |-> intencion,
     productos_detectados |-> detectados,
     productos_confirmados |-> confirmados,
     total_calculado |-> total,
     estado_valido |-> valido,
     ultima_actualizacion |-> stamped]

\* Python truth value of Optional[float]: None and 0 are falsy
TruthyTotal(total) == ~IsNone(total) /\ Get(total) # 0

\* mutant of can_execute_tool: the total is tested for truth, not for > 0
can_execute_tool_truthy_total(cs, tool_name) ==
    IF ~cs.estado_valido
    THEN [ok |-> FALSE,
          reason |-> Some("Estado inválido - no se pueden ejecutar herramientas")]
    ELSE IF tool_name = "payment" /\ cs.productos_confirmados = <<>>
    THEN [ok |-> FALSE, reason |-> Some("No hay productos confirmados para generar pago")]
    ELSE IF tool_name = "payment" /\ ~TruthyTotal(cs.total_calculado)
    THEN [ok |-> FALSE, reason |-> Some("Total no calculado o inválido")]
    ELSE [ok |-> TRUE, reason |-> None]

\* CommercialState.can_execute_tool (vendor_state.py:90-101)
can_execute_tool(cs, tool_name) ==
    IF ~cs.estado_valido
    THEN [ok |-> FALSE,
          reason |-> Some("Estado inválido - no se pueden ejecutar herramientas")]
    ELSE IF tool_name = "payment" /\ cs.productos_confirmados = <<>>
    THEN [ok |-> FALSE, reason |-> Some("No hay productos confirmados para generar pago")]
    ELSE IF tool_name = "payment"
            /\ (IsNone(cs.total_calculado) \/ Get(cs.total_calculado) <= 0)
    THEN [ok |-> FALSE, reason |-> Some("Total no calculado o inválido")]
    ELSE [ok |-> TRUE, reason |-> None]

\* mutant of get_next_valid_actions: payment is offered in cotizando, not in
\* confirmando
get_next_valid_actions_payment_cotizando(cs) ==
    <<"respuesta">> \o
    (CASE cs.etapa_comercial = "nuevo" -> <<"search_product", "search_knowledge">>
       [] cs.etapa_comercial = "explorando" ->
            <<"search_product", "search_knowledge", "media">>
       [] cs.etapa_comercial = "interesado" -> <<"search_product", "media", "crm">>
       [] cs.etapa_comercial = "cotizando" ->
            IF cs.productos_confirmados # <<>> /\ TruthyTotal(cs.total_calculado)
            THEN <<"payment">> ELSE <<>>
       [] cs.etapa_comercial = "pagando" -> <<"followup">>
       [] OTHER -> <<>>)

\* CommercialState.get_next_valid_actions (vendor_state.py:103-122)
get_next_valid_actions(cs) ==
    <<"respuesta">> \o
    (CASE cs.etapa_comercial = "nuevo" -> <<"search_product", "search_knowledge">>
       [] cs.etapa_comercial = "explorando" ->
            <<"search_product", "search_knowledge", "media">>
       [] cs.etapa_comercial = "interesado" -> <<"search_product", "media", "crm">>
       [] cs.etapa_comercial = "cotizando" ->
            IF cs.productos_detectados # <<>> THEN <<"media">> ELSE <<>>
       [] cs.etapa_comercial = "confirmando" ->
            IF cs.productos_confirmados # <<>> /\ TruthyTotal(cs.total_calculado)
            THEN <<"payment">> ELSE <<>>
       [] cs.etapa_comercial = "pagando" -> <<"followup">>
       [] OTHER -> <<>>)

\* ----------------------------------------------------------- VendorOutput

\* VendorOutput (vendor_state.py:125-137); entidades_detectadas and
\* productos_mencionados are read by no modelled code.
VendorOutput(intencion, mensaje, requiere, tool, params, confianza) ==
    [intencion |-> intencion,
     mensaje |-> mensaje,
     requiere_tool |-> requiere,
     tool_sugerida |-> tool,
     tool_params_sugeridos |-> params,
     confianza |-> confianza]

\* Python truth value of Optional[str]: None and "" are falsy
TruthyStr(o) == ~IsNone(o) /\ Get(o) # ""

\* ------------------------------------------------------ ObserverValidation

\* ObserverValidation (vendor_state.py:140-149); validaciones_pasadas and
\* sugerencia_correccion are read by no modelled code.
ObserverValidation(valido, errores, warnings) ==
    [estado_valido |-> valido, errores |-> errores, warnings |-> warnings]

\* confianza < 0.3 (observer.py:213), in hundredths
LOW_CONFIDENCE == 30


\* --------------------------------------------------- observer (validator)

\* What the validator model answers to ObserverAgent.validate's call
\* (observer.py:173): the call raises; the content is no JSON; the content is
\* JSON of another shape than the prompt's object (a list, a string for a
\* list), which data.get / the pydantic constructor reject with an exception
\* other than JSONDecodeError; or the prompt's object, each key optional.
ObserverResponse(kind, valido, errores, warnings) ==
    [kind |-> kind, estado_valido |-> valido, errores |-> errores, warnings |-> warnings]

ObserverResponses ==
    {ObserverResponse(k, None, <<>>, <<>>) : k \in {"raise", "not_json", "bad_shape"}}
    \cup {ObserverResponse("json", v, e, w) :
            v \in {None, Some(TRUE), Some(FALSE)},
            e \in {<<>>, <<LLM_ERROR>>},
            w \in {<<>>, <<LLM_WARNING>>}}

\* ObserverAgent._parse_validation (observer.py:223-250) on a content it
\* returns from: the JSONDecodeError handler, or data.get with its defaults
parse_validation(content) ==
    IF content.kind = "not_json"
    THEN ObserverValidation(TRUE, <<>>, <<W_NOT_PARSED>>)
    ELSE ObserverValidation(
            IF IsNone(content.estado_valido) THEN TRUE ELSE Get(content.estado_valido),
            content.errores, content.warnings)

\* _parse_validation catches JSONDecodeError alone (observer.py:245)
parse_validation_raises(content) == content.kind = "bad_shape"

\* mutant of rule_payment_sin_confirmados: the rule warns instead of blocking
rule_payment_sin_confirmados_warns(validation, vendor_output, commercial_state) ==
    IF vendor_output.tool_sugerida = Some("payment")
       /\ ~IsNone(commercial_state)
       /\ Get(commercial_state).productos_confirmados = <<>>
    THEN [validation EXCEPT !.warnings = Append(@, E_PAGO_SIN_CONFIRMADOS)]
    ELSE validation

\* observer.py:201-206
rule_payment_sin_confirmados(validation, vendor_output, commercial_state) ==
    IF vendor_output.tool_sugerida = Some("payment")
       /\ ~IsNone(commercial_state)
       /\ Get(commercial_state).productos_confirmados = <<>>
    THEN [validation EXCEPT !.estado_valido = FALSE,
                            !.errores = Append(@, E_PAGO_SIN_CONFIRMADOS)]
    ELSE validation

\* observer.py:201,208-211
rule_payment_intencion(validation, vendor_output) ==
    IF vendor_output.tool_sugerida = Some("payment")
       /\ vendor_output.intencion # "confirmacion_compra"
    THEN [validation EXCEPT !.warnings = Append(@, W_PAYMENT_INTENT)]
    ELSE validation

\* mutant of rule_confianza_baja: the warnings are assigned, not appended to
rule_confianza_baja_assigns(validation, vendor_output) ==
    IF vendor_output.confianza < LOW_CONFIDENCE
    THEN [validation EXCEPT !.warnings = <<W_LOW_CONFIDENCE>>]
    ELSE validation

\* observer.py:213-216
rule_confianza_baja(validation, vendor_output) ==
    IF vendor_output.confianza < LOW_CONFIDENCE
    THEN [validation EXCEPT !.warnings = Append(@, W_LOW_CONFIDENCE)]
    ELSE validation

\* mutant of rule_requiere_sin_tool: the rule blocks
rule_requiere_sin_tool_blocks(validation, vendor_output) ==
    IF vendor_output.requiere_tool /\ ~TruthyStr(vendor_output.tool_sugerida)
    THEN [validation EXCEPT !.estado_valido = FALSE,
                            !.warnings = Append(@, W_NO_TOOL)]
    ELSE validation

\* observer.py:218-221
rule_requiere_sin_tool(validation, vendor_output) ==
    IF vendor_output.requiere_tool /\ ~TruthyStr(vendor_output.tool_sugerida)
    THEN [validation EXCEPT !.warnings = Append(@, W_NO_TOOL)]
    ELSE validation

\* ObserverAgent._apply_hardcoded_rules (observer.py:193-221)
apply_hardcoded_rules(validation, vendor_output, commercial_state) ==
    rule_requiere_sin_tool(
        rule_confianza_baja(
            rule_payment_intencion(
                rule_payment_sin_confirmados(validation, vendor_output, commercial_state),
                vendor_output),
            vendor_output),
        vendor_output)

\* mutant of validate_failed: the except branch fails closed
validate_failed_closed == ObserverValidation(FALSE, <<W_NOT_EXECUTED>>, <<>>)

\* the except branch of ObserverAgent.validate (observer.py:186-191)
validate_failed == ObserverValidation(TRUE, <<>>, <<W_NOT_EXECUTED>>)

\* ObserverAgent.validate (observer.py:124-191) given the model's response
validate(response, vendor_output, commercial_state) ==
    IF response.kind = "raise" \/ parse_validation_raises(response)
    THEN validate_failed
    ELSE apply_hardcoded_rules(parse_validation(response), vendor_output, commercial_state)

\* ------------------------------------------------------------ decide_action

\* AgentAction as the graph state holds it (vendor_state.py:163-168)
AgentAction(accion, mensaje, nombre_tool, input_tool) ==
    [accion |-> accion, mensaje |-> mensaje,
     nombre_tool |-> nombre_tool, input_tool |-> input_tool]

Respuesta(mensaje) == Some(AgentAction("respuesta", mensaje, None, None))

\* vendor_output.tool_params_sugeridos or {} (graph.py:244)
ParamsOrEmpty(params) == IF IsNone(params) THEN "empty" ELSE Get(params)

\* mutant of decide_action: state_valid is not looked at
decide_action_no_veto(state_valid, vendor_output, commercial_state) ==
    IF IsNone(vendor_output)
    THEN [graph_decision |-> "response_only", vendor_action |-> None]
    ELSE LET vo == Get(vendor_output)
             tool_name == Get(vo.tool_sugerida)
         IN IF vo.requiere_tool /\ TruthyStr(vo.tool_sugerida)
               /\ (IsNone(commercial_state)
                   \/ (/\ can_execute_tool(Get(commercial_state), tool_name).ok
                       /\ (\/ InSeq(tool_name, get_next_valid_actions(Get(commercial_state)))
                           \/ tool_name \in {"search_product", "search_knowledge"})))
            THEN [graph_decision |-> "execute_tool",
                  vendor_action |->
                      Some(AgentAction("tool", vo.mensaje, Some(tool_name),
                                       Some(ParamsOrEmpty(vo.tool_params_sugeridos))))]
            ELSE [graph_decision |-> "response_only",
                  vendor_action |-> Respuesta(vo.mensaje)]

\* the decision for an interpretation that names a tool, given which of the
\* two state checks are made
decide_tool_checked(vendor_output, commercial_state, check_stage, always_allowed) ==
    LET vo == Get(vendor_output)
        tool_name == Get(vo.tool_sugerida)
    IN IF ~(vo.requiere_tool /\ TruthyStr(vo.tool_sugerida))
          \/ (/\ ~IsNone(commercial_state)
              /\ \/ ~can_execute_tool(Get(commercial_state), tool_name).ok
                 \/ /\ check_stage
                    /\ ~InSeq(tool_name, get_next_valid_actions(Get(commercial_state)))
                    /\ tool_name \notin always_allowed)
       THEN [graph_decision |-> "response_only", vendor_action |-> Respuesta(vo.mensaje)]
       ELSE [graph_decision |-> "execute_tool",
             vendor_action |->
                 Some(AgentAction("tool", vo.mensaje, Some(tool_name),
                                  Some(ParamsOrEmpty(vo.tool_params_sugeridos))))]

\* mutant of decide_action: the stage's valid actions are not asked
decide_action_no_stage_check(state_valid, vendor_output, commercial_state) ==
    IF ~state_valid
    THEN [graph_decision |-> "response_only",
          vendor_action |-> Respuesta(IF IsNone(vendor_output) THEN ""
                                      ELSE Get(vendor_output).mensaje)]
    ELSE IF IsNone(vendor_output)
    THEN [graph_decision |-> "response_only", vendor_action |-> None]
    ELSE decide_tool_checked(vendor_output, commercial_state, FALSE, {})

\* mutant of decide_action: no tool is allowed outside the stage's valid
\* actions
decide_action_listed_only(state_valid, vendor_output, commercial_state) ==
    IF ~state_valid
    THEN [graph_decision |-> "response_only",
          vendor_action |-> Respuesta(IF IsNone(vendor_output) THEN ""
                                      ELSE Get(vendor_output).mensaje)]
    ELSE IF IsNone(vendor_output)
    THEN [graph_decision |-> "response_only", vendor_action |-> None]
    ELSE decide_tool_checked(vendor_output, commercial_state, TRUE, {})

\* decide_action_node (graph.py:178-256): [graph_decision, vendor_action]
decide_action(state_valid, vendor_output, commercial_state) ==
    IF ~state_valid
    THEN [graph_decision |-> "response_only",
          vendor_action |-> Respuesta(IF IsNone(vendor_output) THEN ""
                                      ELSE Get(vendor_output).mensaje)]
    ELSE IF IsNone(vendor_output)
    THEN [graph_decision |-> "response_only", vendor_action |-> None]
    ELSE LET vo == Get(vendor_output)
             tool_name == Get(vo.tool_sugerida)
         IN IF vo.requiere_tool /\ TruthyStr(vo.tool_sugerida)
            THEN IF ~IsNone(commercial_state)
                    /\ ~can_execute_tool(Get(commercial_state), tool_name).ok
                 THEN [graph_decision |-> "response_only",
                       vendor_action |-> Respuesta(vo.mensaje)]
                 ELSE IF ~IsNone(commercial_state)
                         /\ ~InSeq(tool_name, get_next_valid_actions(Get(commercial_state)))
                         /\ tool_name \notin {"search_product", "search_knowledge"}
                 THEN [graph_decision |-> "response_only",
                       vendor_action |-> Respuesta(vo.mensaje)]
                 ELSE [graph_decision |-> "execute_tool",
                       vendor_action |->
                           Some(AgentAction("tool", vo.mensaje, Some(tool_name),
                                            Some(ParamsOrEmpty(vo.tool_params_sugeridos))))]
            ELSE [graph_decision |-> "response_only",
                  vendor_action |-> Respuesta(vo.mensaje)]


\* -------------------------------------------------------------- tool router

\* What a tool input holds, as far as the input schemas tell inputs apart
\* (tool_schemas.py:152-230): {} ; every required field ; the tool's own
\* required fields without lead_id and business_id ; a field of a wrong type.
ParamKinds == {"empty", "complete", "own_fields", "malformed"}

\* tools whose input execute_tool completes with the context's ids
\* (tool_router.py:161-163)
IdTools == {"payment", "followup", "crm"}

\* input_schema(**input_data) raises nothing (tool_schemas.py:152-230);
\* input_data None makes the call itself raise
schema_accepts(tool_name, input_tool) ==
    /\ ~IsNone(input_tool)
    /\ \/ Get(input_tool) = "complete"
       \/ Get(input_tool) = "own_fields" /\ tool_name \notin IdTools

\* input_data after tool_router.py:161-163 for the tools of IdTools
with_context_ids(tool_name, input_tool) ==
    IF tool_name \notin IdTools \/ IsNone(input_tool) THEN input_tool
    ELSE IF Get(input_tool) = "own_fields" THEN Some("complete")
    ELSE IF Get(input_tool) = "empty" /\ tool_name = "followup" THEN Some("complete")
    ELSE input_tool

\* ToolRouter.validate_tool_call (tool_router.py:212-226)
validate_tool_call(tool_name, input_tool) ==
    IF tool_name \in CustomTools THEN [ok |-> TRUE, error |-> None]
    ELSE IF tool_name \notin BuiltinTools
    THEN [ok |-> FALSE, error |-> Some("Tool no existe")]
    ELSE IF schema_accepts(tool_name, input_tool) THEN [ok |-> TRUE, error |-> None]
    ELSE [ok |-> FALSE, error |-> Some("validation error")]

\* a tool result as format_tool_result reads it (tool_router.py:229-252)
ToolOutput(success, error, message) ==
    [success |-> success, error |-> error, message |-> message]

\* ToolRouter.execute_tool hands the call to a handler (tool_router.py:147,
\* 165-174, 202): a custom tool always, a built-in one once its input passed
\* the schema
router_dispatches(tool_name, input_tool) ==
    \/ tool_name \in CustomTools
    \/ /\ tool_name \in BuiltinTools
       /\ schema_accepts(tool_name, with_context_ids(tool_name, input_tool))

\* the tools whose output has an 'error' field: PaymentOutput
\* (tool_schemas.py:172-177) and CustomToolOutput (custom_tool.py:22-27)
ErrorFieldTools == {"payment"} \cup CustomTools

\* what happens inside a handler's run: the collaborator answers well ("ok"),
\* answers an error or finds nothing ("fail"), the transport times out
\* ("timeout"; for crm "timeout_local" is the timeout of an action crm.py
\* registers locally), or another exception is raised ("raise"). Every run
\* catches what is raised in it.
HandlerOutcomes(tool_name, input_tool) ==
    IF tool_name = "crm" THEN {"ok", "fail", "timeout", "timeout_local", "raise"}
    ELSE {"ok", "fail", "timeout", "raise"}

RAISED == "ConnectError db_id=xx"

\* what a handler's run returns, model_dump()ed: CustomToolHandler.run
\* (custom_tool.py:49-136), PaymentTool.run (payment.py:16-64),
\* FollowupTool.run (followup.py:17-71), CRMTool.run (crm.py:100-125) and
\* the run of search_product, search_knowledge and media, whose outputs have
\* no 'error' field
handler_result(tool_name, outcome) ==
    IF outcome = "ok" THEN ToolOutput(TRUE, None, "Operación exitosa")
    ELSE IF tool_name \in CustomTools
    THEN CASE outcome = "fail" -> ToolOutput(FALSE, Some("HTTP 500"), "Error HTTP 500")
           [] outcome = "timeout" ->
                ToolOutput(FALSE, Some("Timeout"),
                           "Timeout: La tool tardó demasiado en responder")
           [] OTHER -> ToolOutput(FALSE, Some(RAISED), "Error al ejecutar tool: " \o RAISED)
    ELSE IF tool_name = "payment"
    THEN CASE outcome = "fail" ->
                ToolOutput(FALSE, Some("HTTP 500 db_id=xx"), "Error al generar link de pago")
           [] outcome = "timeout" ->
                ToolOutput(FALSE, Some("Timeout al conectar con Core API"),
                           "El servidor tardó demasiado en responder")
           [] OTHER -> ToolOutput(FALSE, Some(RAISED), "Error al generar link de pago")
    ELSE IF tool_name = "followup"
    THEN CASE outcome = "fail" -> ToolOutput(TRUE, None, "Seguimiento programado")
           [] outcome = "timeout" ->
                ToolOutput(TRUE, None, "Seguimiento registrado (conexión pendiente)")
           [] OTHER -> ToolOutput(FALSE, None, "Error al programar seguimiento: " \o RAISED)
    ELSE IF tool_name = "crm"
    THEN CASE outcome = "fail" -> ToolOutput(FALSE, None, "Acción no reconocida")
           [] outcome = "timeout" -> ToolOutput(FALSE, None, "Timeout al conectar con Core API")
           [] outcome = "timeout_local" -> ToolOutput(TRUE, None, "Acción registrada localmente")
           [] OTHER -> ToolOutput(FALSE, None, "Error en CRM: " \o RAISED)
    ELSE CASE outcome = "fail" -> ToolOutput(FALSE, None, "No se encontró")
           [] OTHER -> ToolOutput(FALSE, None, "Error al buscar: " \o RAISED)

\* ToolRouter.execute_tool (tool_router.py:141-210) given what happens in the
\* handler
execute_tool(tool_name, input_tool, outcome) ==
    IF router_dispatches(tool_name, input_tool)
    THEN handler_result(tool_name, outcome)
    ELSE IF tool_name \notin BuiltinTools
    THEN ToolOutput(FALSE, Some("Tool not found"), "Herramienta no disponible")
    ELSE ToolOutput(FALSE, Some("validation error"), "Error al ejecutar: validation error")

\* a call a handler received and what happened in it
HandlerCall(tool_name, outcome) == [tool |-> tool_name, outcome |-> outcome]

\* format_tool_result (tool_router.py:229-252)
format_tool_result(result) == result.message

\* ToolCallRecord (graph.py:44-49)
ToolCallRecord(tool_name, tool_input, result, success, error) ==
    [tool_name |-> tool_name, tool_input |-> tool_input, result |-> result,
     success |-> success, error |-> error]

\* tool_input or {} (graph.py:314, 451)
InputOrEmpty(input_tool) == IF IsNone(input_tool) THEN "empty" ELSE Get(input_tool)

\* -------------------------------------------------------------- GraphState

\* GraphState (graph.py:52-84) and what lies around one turn. A key the
\* initial state of the turn does not hold is None.
VARIABLES
    entry,                \* which graph runs the turn
    pc,                   \* the node that runs next
    lead_memory,          \* lead_memory["current_stage"]
    history_len,          \* len(conversation_history)
    iteration_count,      \* how many times a vendor node ran in the turn
    commercial_state,
    vendor_output,
    observer_response,    \* the validator model's answer of this turn
    observer_validation,
    state_valid,
    graph_decision,
    vendor_action,
    tool_result,
    tool_success,
    tool_error,
    tool_calls,
    dispatched,           \* the calls the tool handlers received, in order
    telemetry,            \* the tool execution logs handed to the telemetry task
    final_response,
    observer_output,
    retry_count,
    needs_retry,
    refiner_output,
    pending_rules,        \* agent_v2:rules_pending:{business_id}
    active_rules,         \* the "reglas" of agent_v2:rules:{business_id}
    store_call,           \* the last call of a RefinerAgent method on the store
    store_ops,            \* how many such calls were made
    approver,             \* a call of approve_rule under way: its place and locals
    saver                 \* a call of _save_pending_rules under way, likewise

turnVars == <<entry, lead_memory, history_len, iteration_count>>
stageVars ==
    <<commercial_state, vendor_output, observer_response, observer_validation,
      state_valid, graph_decision>>
toolVars ==
    <<tool_result, tool_success, tool_error, tool_calls, dispatched, telemetry>>
raceVars == <<approver, saver>>
ruleVars == <<active_rules, store_call, store_ops, raceVars>>
legacyVars ==
    <<observer_output, retry_count, needs_retry, refiner_output, pending_rules,
      ruleVars>>

vars == <<pc, turnVars, stageVars, vendor_action, toolVars, final_response, legacyVars>>

\* approve_rule before it is called (refiner.py:244): no local is bound
ApproverIdle ==
    [at |-> "idle", rule_index |-> 0, pending |-> <<>>, active |-> <<>>,
     entry |-> None, ret |-> FALSE]

\* _save_pending_rules before it is called (refiner.py:211)
SaverIdle == [at |-> "idle", output |-> None, pending |-> <<>>]

\* state_validation_node (graph.py:150-175)
StateValidationNode ==
    /\ pc = "state_validation"
    /\ IF IsNone(vendor_output)
       THEN /\ state_valid' = FALSE
            /\ observer_validation' = None
            /\ UNCHANGED observer_response
       ELSE \E response \in ObserverResponses :
              LET validation == validate(response, Get(vendor_output), commercial_state)
              IN /\ observer_response' = Some(response)
                 /\ observer_validation' = Some(validation)
                 /\ state_valid' = validation.estado_valido
    /\ pc' = "decide_action"
    /\ UNCHANGED <<turnVars, commercial_state, vendor_output, graph_decision,
                   vendor_action, toolVars, final_response, legacyVars>>

\* should_execute_tool_v2 (graph.py:615-620)
should_execute_tool_v2(decision) ==
    IF decision = "execute_tool" THEN "execute_tool" ELSE "finalize"

\* mutant of DecideActionNode: the decision also folds the intent into the
\* commercial state
DecideActionNode_folds ==
    /\ pc = "decide_action"
    /\ LET d == decide_action(state_valid, vendor_output, commercial_state)
       IN /\ graph_decision' = Some(d.graph_decision)
          /\ vendor_action' = d.vendor_action
          /\ pc' = should_execute_tool_v2(d.graph_decision)
    /\ commercial_state' =
         IF IsNone(commercial_state) \/ IsNone(vendor_output) THEN commercial_state
         ELSE Some([Get(commercial_state) EXCEPT
                      !.intencion_actual = Some(Get(vendor_output).intencion)])
    /\ UNCHANGED <<turnVars, vendor_output, observer_response,
                   observer_validation, state_valid, toolVars, final_response,
                   legacyVars>>

\* decide_action_node (graph.py:178-256) and the conditional edge after it
\* (graph.py:695-699)
DecideActionNode ==
    /\ pc = "decide_action"
    /\ LET d == decide_action(state_valid, vendor_output, commercial_state)
       IN /\ graph_decision' = Some(d.graph_decision)
          /\ vendor_action' = d.vendor_action
          /\ pc' = should_execute_tool_v2(d.graph_decision)
    /\ UNCHANGED <<turnVars, commercial_state, vendor_output, observer_response,
                   observer_validation, state_valid, toolVars, final_response,
                   legacyVars>>

\* the variables the stage-level runs leave as the turn's initial state has
\* them (main.py:192-219)
RestInit ==
    /\ entry = "state_governed"
    /\ lead_memory = None
    /\ history_len = 0
    /\ iteration_count = 0
    /\ observer_response = None
    /\ graph_decision = None
    /\ vendor_action = None
    /\ tool_result = None
    /\ tool_success = None
    /\ tool_error = None
    /\ tool_calls = <<>>
    /\ dispatched = <<>>
    /\ telemetry = <<>>
    /\ final_response = None
    /\ observer_output = None
    /\ retry_count = 0
    /\ needs_retry = FALSE
    /\ refiner_output = None
    /\ pending_rules = <<>>
    /\ active_rules = <<>>
    /\ store_call = None
    /\ store_ops = 0
    /\ approver = ApproverIdle
    /\ saver = SaverIdle

\* ------------------------------------------- inputs of the stage-level runs

P1 == ProductoDetectado("P1", TRUE)
P2 == ProductoDetectado("P2", FALSE)

\* (productos_detectados, productos_confirmados)
Carts == {<<<<>>, <<>>>>, <<<<P2>>, <<>>>>, <<<<P1, P2>>, <<P1>>>>}

\* total_calculado: None, zero, a negative amount, 49.90
Totals == {None, Some(0), Some(0 - 100), Some(4990)}

\* the interpretations handed to the Validation Stage
ValidationVendorOutputs ==
    {VendorOutput(i, "Claro, te ayudo", r, t, None, c) :
        i \in Intenciones, r \in BOOLEAN,
        t \in {None, Some("")} \cup {Some(n) : n \in ToolNames},
        c \in {29, 30, 80}}

ValidationCommercialStates ==
    {CommercialState(e, None, c[1], c[2], Some(4990), TRUE, Some("load_state")) :
        e \in Etapas, c \in {<<<<>>, <<>>>>, <<<<P1, P2>>, <<P1>>>>}}

\* The Validation Stage then the Decision Stage, from every interpretation
\* and commercial state of the sets above.
ValidationInit ==
    /\ RestInit
    /\ pc = "state_validation"
    /\ commercial_state \in {None} \cup {Some(cs) : cs \in ValidationCommercialStates}
    /\ vendor_output \in {None} \cup {Some(vo) : vo \in ValidationVendorOutputs}
    /\ observer_validation = None
    /\ state_valid = TRUE

ValidationNext == StateValidationNode \/ DecideActionNode

ValidationSpec == ValidationInit /\ [][ValidationNext]_vars

\* the interpretations handed to the Decision Stage
DecisionVendorOutputs ==
    {VendorOutput("confirmacion_compra", m, r, t, p, 80) :
        m \in {"Claro, te ayudo", "Te envío el link"}, r \in BOOLEAN,
        t \in {None, Some("")} \cup {Some(n) : n \in ToolNames},
        p \in {None, Some("complete")}}

DecisionCommercialStates ==
    {CommercialState(e, None, c[1], c[2], t, v, Some("load_state")) :
        e \in Etapas, c \in Carts, t \in Totals, v \in BOOLEAN}

\* The Decision Stage alone, from every interpretation, commercial state and
\* verdict of the sets above; state_valid is the verdict's estado_valido, as
\* state_validation_node returns it (graph.py:171-175).
DecisionInit ==
    /\ RestInit
    /\ pc = "decide_action"
    /\ commercial_state \in {None} \cup {Some(cs) : cs \in DecisionCommercialStates}
    /\ vendor_output \in {None} \cup {Some(vo) : vo \in DecisionVendorOutputs}
    /\ observer_validation \in
         {Some(ObserverValidation(TRUE, <<>>, <<>>)),
          Some(ObserverValidation(FALSE, <<LLM_ERROR>>, <<>>))}
    /\ state_valid = Get(observer_validation).estado_valido

DecisionNext == DecideActionNode

DecisionSpec == DecisionInit /\ [][DecisionNext]_vars


\* ---------------------------------------------- state-governed graph nodes

\* mutant of load_state: any persisted value is taken as the stage
load_state_unchecked(current_stage) ==
    CommercialState(
        IF ~IsNone(current_stage) THEN Get(current_stage) ELSE "nuevo",
        None, <<>>, <<>>, None, TRUE, Some("load_state"))

\* mutant of load_state: the load restores a confirmed cart and its total
load_state_restores_cart(current_stage) ==
    CommercialState(
        IF ~IsNone(current_stage) /\ Get(current_stage) \in Etapas
        THEN Get(current_stage) ELSE "nuevo",
        None, <<P1>>, <<P1>>, Some(4990), TRUE, Some("load_state"))

\* load_state_node (graph.py:100-119): the CommercialState it builds
load_state(current_stage) ==
    CommercialState(
        IF ~IsNone(current_stage) /\ Get(current_stage) \in Etapas
        THEN Get(current_stage) ELSE "nuevo",
        None, <<>>, <<>>, None, TRUE, Some("load_state"))

LoadStateNode ==
    /\ pc = "load_state"
    /\ commercial_state' = Some(load_state(lead_memory))
    /\ state_valid' = TRUE
    /\ pc' = "vendor_interpret"
    /\ UNCHANGED <<turnVars, vendor_output, observer_response, observer_validation,
                   graph_decision, vendor_action, toolVars, final_response, legacyVars>>

\* What VendorAgent.interpret hands to vendor_interpret_node (graph.py:133):
\* a VendorOutput. The method is called there and defined nowhere in the
\* repository; this is the Interpretation Service of the specification.
InterpretOutputs ==
    {VendorOutput(i, "Claro, te ayudo", r, t, p, c) :
        i \in Intenciones, r \in BOOLEAN,
        t \in {None, Some("payment"), Some("search_product"), Some("media"),
               Some("custom_erp"), Some("teleport")},
        p \in {None, Some("own_fields"), Some("malformed")},
        c \in {29, 80}}

\* vendor_interpret_node (graph.py:122-147)
VendorInterpretNode ==
    /\ pc = "vendor_interpret"
    /\ \E vo \in InterpretOutputs : vendor_output' = Some(vo)
    /\ iteration_count' = iteration_count + 1
    /\ pc' = "state_validation"
    /\ UNCHANGED <<entry, lead_memory, history_len,
                   commercial_state, observer_response, observer_validation,
                   state_valid, graph_decision, vendor_action, toolVars,
                   final_response, legacyVars>>

\* log_tool_execution_fire_and_forget (telemetry.py:74-117): the log it
\* hands to asyncio.create_task, or the log it drops when scheduling raises
log_tool_execution_fire_and_forget(tool_name, success, scheduled) ==
    [tool_name |-> tool_name, success |-> success,
     status |-> IF scheduled THEN "scheduled" ELSE "unscheduled"]

\* how a scheduled log_tool_execution ends (telemetry.py:13-71): it returns
\* True on a 200, False on any other answer, on a timeout and on any error
TelemetryOutcomes == {"sent", "failed", "timeout"}

\* mutant of LogToolExecution: a log that could not be delivered fails the
\* tool call it reports
LogToolExecution_fails_tool ==
    /\ \E i \in 1..Len(telemetry), outcome \in TelemetryOutcomes :
         /\ telemetry[i].status = "scheduled"
         /\ telemetry' = [telemetry EXCEPT ![i].status = outcome]
         /\ tool_success' = IF outcome = "sent" THEN tool_success ELSE Some(FALSE)
    /\ UNCHANGED <<pc, turnVars, stageVars, vendor_action, tool_result, tool_error,
                   tool_calls, dispatched, final_response, legacyVars>>

\* the task of log_tool_execution (telemetry.py:13-71) running at some later
\* point of the event loop; nothing awaits it
LogToolExecution ==
    /\ \E i \in 1..Len(telemetry), outcome \in TelemetryOutcomes :
         /\ telemetry[i].status = "scheduled"
         /\ telemetry' = [telemetry EXCEPT ![i].status = outcome]
    /\ UNCHANGED <<pc, turnVars, stageVars, vendor_action, tool_result, tool_success,
                   tool_error, tool_calls, dispatched, final_response, legacyVars>>

\* state.get("tool_success", True) (graph.py:339, 373)
ToolSuccessOrTrue(ts) == IF IsNone(ts) THEN TRUE ELSE Get(ts)

\* execute_tool_node (graph.py:259-330)
ExecuteToolNode ==
    /\ pc = "execute_tool"
    /\ ~IsNone(vendor_action)
    /\ LET tool_name == Get(vendor_action).nombre_tool
           tool_input == Get(vendor_action).input_tool
       IN IF ~state_valid
          THEN /\ tool_result' = None
               /\ tool_success' = Some(FALSE)
               /\ tool_error' = Some("State validation failed")
               /\ UNCHANGED <<tool_calls, dispatched, telemetry>>
          ELSE IF ~TruthyStr(tool_name)
          THEN /\ tool_result' = None
               /\ tool_success' = Some(TRUE)
               /\ tool_error' = None
               /\ UNCHANGED <<tool_calls, dispatched, telemetry>>
          ELSE IF ~validate_tool_call(Get(tool_name), tool_input).ok
          THEN /\ tool_result' =
                    Some("Parámetros inválidos: "
                         \o Get(validate_tool_call(Get(tool_name), tool_input).error))
               /\ tool_success' = Some(FALSE)
               /\ tool_error' = validate_tool_call(Get(tool_name), tool_input).error
               /\ UNCHANGED <<tool_calls, dispatched, telemetry>>
          ELSE \E outcome \in HandlerOutcomes(Get(tool_name), tool_input),
                  scheduled \in BOOLEAN :
                 LET result == execute_tool(Get(tool_name), tool_input, outcome)
                     error == IF result.success THEN None ELSE result.error
                 IN /\ tool_result' = Some(format_tool_result(result))
                    /\ tool_success' = Some(result.success)
                    /\ tool_error' = error
                    /\ dispatched' =
                         IF router_dispatches(Get(tool_name), tool_input)
                         THEN Append(dispatched, HandlerCall(Get(tool_name), outcome))
                         ELSE dispatched
                    /\ telemetry' =
                         Append(telemetry,
                                log_tool_execution_fire_and_forget(
                                    Get(tool_name), result.success, scheduled))
                    /\ tool_calls' =
                         Append(tool_calls,
                                ToolCallRecord(Get(tool_name), InputOrEmpty(tool_input),
                                               format_tool_result(result),
                                               result.success, error))
    /\ pc' = "update_state"
    /\ UNCHANGED <<turnVars, stageVars, vendor_action, final_response, legacyVars>>

\* mutant of update_state: a purchase confirmation confirms a product that
\* was never detected
update_state_confirms(cs, output, action, success) ==
    IF ~IsNone(output) /\ Get(output).intencion = "confirmacion_compra"
    THEN [cs EXCEPT !.intencion_actual = Some("confirmacion_compra"),
                    !.productos_confirmados = Append(@, P1),
                    !.etapa_comercial = "confirmando",
                    !.ultima_actualizacion = Some("update_state")]
    ELSE [cs EXCEPT !.ultima_actualizacion = Some("update_state")]

\* mutant of update_state: a product inquiry sets explorando from any stage
update_state_explores_always(cs, output, action, success) ==
    LET interpreted ==
            IF IsNone(output) THEN cs
            ELSE LET intencion == Get(output).intencion
                 IN [cs EXCEPT
                       !.intencion_actual = Some(intencion),
                       !.etapa_comercial =
                           IF intencion = "consulta_producto" THEN "explorando"
                           ELSE IF intencion = "intencion_compra" THEN "interesado"
                           ELSE IF intencion = "confirmacion_compra"
                           THEN (IF cs.productos_confirmados # <<>>
                                 THEN "confirmando" ELSE @)
                           ELSE @]
        paid ==
            IF /\ ~IsNone(action)
               /\ Get(action).nombre_tool = Some("payment")
               /\ ToolSuccessOrTrue(success)
            THEN [interpreted EXCEPT !.etapa_comercial = "pagando"]
            ELSE interpreted
    IN [paid EXCEPT !.ultima_actualizacion = Some("update_state")]

\* mutant of update_state: the payment rule does not look at tool_success
update_state_paying_unchecked(cs, output, action, success) ==
    LET interpreted ==
            IF IsNone(output) THEN cs
            ELSE LET intencion == Get(output).intencion
                 IN [cs EXCEPT
                       !.intencion_actual = Some(intencion),
                       !.etapa_comercial =
                           IF intencion = "consulta_producto"
                           THEN (IF @ = "nuevo" THEN "explorando" ELSE @)
                           ELSE IF intencion = "intencion_compra" THEN "interesado"
                           ELSE IF intencion = "confirmacion_compra"
                           THEN (IF cs.productos_confirmados # <<>>
                                 THEN "confirmando" ELSE @)
                           ELSE @]
        paid ==
            IF ~IsNone(action) /\ Get(action).nombre_tool = Some("payment")
            THEN [interpreted EXCEPT !.etapa_comercial = "pagando"]
            ELSE interpreted
    IN [paid EXCEPT !.ultima_actualizacion = Some("update_state")]

\* update_state_node (graph.py:344-364): the CommercialState it returns
update_state(cs, output, action, success) ==
    LET interpreted ==
            IF IsNone(output) THEN cs
            ELSE LET intencion == Get(output).intencion
                 IN [cs EXCEPT
                       !.intencion_actual = Some(intencion),
                       !.etapa_comercial =
                           IF intencion = "consulta_producto"
                           THEN (IF @ = "nuevo" THEN "explorando" ELSE @)
                           ELSE IF intencion = "intencion_compra" THEN "interesado"
                           ELSE IF intencion = "confirmacion_compra"
                           THEN (IF cs.productos_confirmados # <<>>
                                 THEN "confirmando" ELSE @)
                           ELSE @]
        paid ==
            IF /\ ~IsNone(action)
               /\ Get(action).nombre_tool = Some("payment")
               /\ ToolSuccessOrTrue(success)
            THEN [interpreted EXCEPT !.etapa_comercial = "pagando"]
            ELSE interpreted
    IN [paid EXCEPT !.ultima_actualizacion = Some("update_state")]

\* update_state_node (graph.py:333-364)
UpdateStateNode ==
    /\ pc = "update_state"
    /\ commercial_state' =
         IF IsNone(commercial_state) THEN commercial_state
         ELSE Some(update_state(Get(commercial_state), vendor_output,
                                vendor_action, tool_success))
    /\ pc' = "finalize"
    /\ UNCHANGED <<turnVars, vendor_output, observer_response, observer_validation,
                   state_valid, graph_decision, vendor_action, toolVars,
                   final_response, legacyVars>>

NARRATION == "narración del resultado"

\* VendorAgent.refine_with_tool_result (vendor.py:229-291): the model's text,
\* or in the except branch the original message followed by the tool result
refine_with_tool_result(original_message, result_text, llm) ==
    IF llm = "ok" THEN <<NARRATION>>
    ELSE IF original_message # "" THEN <<original_message, result_text>>
    ELSE <<result_text>>

\* mutant of FinalizeResponseNode: the narration call is not guarded, so a
\* raising model call leaves the node without a final response
FinalizeResponseNode_propagates ==
    /\ pc = "finalize"
    /\ ~IsNone(vendor_action)
    /\ LET action == Get(vendor_action)
       IN IF action.accion = "respuesta" \/ ~TruthyStr(tool_result)
          THEN /\ final_response' = Some(<<action.mensaje>>)
               /\ pc' = "refiner"
          ELSE \E llm \in {"ok", "raise"} :
                 IF llm = "raise"
                 THEN /\ pc' = "fault"
                      /\ UNCHANGED final_response
                 ELSE /\ final_response' =
                            Some(refine_with_tool_result(action.mensaje,
                                                         Get(tool_result), llm))
                      /\ pc' = "refiner"
    /\ UNCHANGED <<turnVars, stageVars, vendor_action, toolVars, legacyVars>>

\* finalize_response_node (graph.py:367-391); a final response is the
\* sequence of the texts it is made of
FinalizeResponseNode ==
    /\ pc = "finalize"
    /\ ~IsNone(vendor_action)
    /\ LET action == Get(vendor_action)
       IN IF action.accion = "respuesta" \/ ~TruthyStr(tool_result)
          THEN final_response' = Some(<<action.mensaje>>)
          ELSE \E llm \in {"ok", "raise"} :
                 final_response' =
                     Some(refine_with_tool_result(action.mensaje, Get(tool_result), llm))
    /\ pc' = "refiner"
    /\ UNCHANGED <<turnVars, stageVars, vendor_action, toolVars, legacyVars>>

\* ----------------------------------------------------- legacy graph nodes

\* MIN_CONTEXT_FOR_OBSERVER (graph.py:40)
MIN_CONTEXT_FOR_OBSERVER == 3
\* MAX_RETRY_ATTEMPTS (graph.py:41)
MAX_RETRY_ATTEMPTS == 2
\* existing_pending[-30:] (refiner.py:235, 420)
PENDING_CAP == 30

\* the longest conversation history of a request
MaxHistory == 3

\* answers of the vendor model that json.loads rejects, as the text left once
\* _parse_response stripped the blanks and the code fences around it
\* (vendor.py:295-302): prose, and nothing (the answer was an empty fence)
UnparsableContents == {"Hola, con gusto te cuento", ""}

\* the except branch of VendorAgent._parse_response (vendor.py:316-321)
parse_response_default(content) == AgentAction("respuesta", content, None, None)

\* What VendorAgent.process returns (vendor.py:170-227, 293-321): the action
\* the model wrote, or a 'respuesta' when its answer is no JSON or it raised.
LegacyActions ==
    {AgentAction(a, "Claro, te ayudo", t, p) :
        a \in {"respuesta", "tool"},
        t \in {None, Some("payment"), Some("custom_erp"), Some("teleport")},
        p \in {None, Some("own_fields")}}
    \cup {AgentAction("respuesta", "Lo siento, tuve un problema", None, None)}
    \cup {parse_response_default(content) : content \in UnparsableContents}

\* should_use_tool (graph.py:595-599)
should_use_tool(action) ==
    IF action.accion = "tool" /\ TruthyStr(action.nombre_tool)
    THEN "tool_router" ELSE "response_builder"

\* vendor_node (graph.py:394-427) and the conditional edge after it
\* (graph.py:637-641)
VendorNode ==
    /\ pc = "vendor"
    /\ \E action \in LegacyActions :
         /\ vendor_action' = Some(action)
         /\ pc' = should_use_tool(action)
    /\ needs_retry' = FALSE
    /\ iteration_count' = iteration_count + 1
    /\ UNCHANGED <<entry, lead_memory, history_len, stageVars, toolVars,
                   final_response, observer_output, retry_count, refiner_output,
                   pending_rules, ruleVars>>

\* tool_router_node (graph.py:430-465)
ToolRouterNode ==
    /\ pc = "tool_router"
    /\ LET tool_name == Get(vendor_action).nombre_tool
           tool_input == Get(vendor_action).input_tool
       IN IF ~TruthyStr(tool_name)
          THEN /\ tool_result' = None
               /\ tool_success' = Some(TRUE)
               /\ tool_error' = None
               /\ UNCHANGED <<tool_calls, dispatched, telemetry>>
          ELSE \E outcome \in HandlerOutcomes(Get(tool_name), tool_input) :
                 LET result == execute_tool(Get(tool_name), tool_input, outcome)
                     error == IF result.success THEN None ELSE result.error
                 IN /\ tool_result' = Some(format_tool_result(result))
                    /\ tool_success' = Some(result.success)
                    /\ tool_error' = error
                    /\ dispatched' =
                         IF router_dispatches(Get(tool_name), tool_input)
                         THEN Append(dispatched, HandlerCall(Get(tool_name), outcome))
                         ELSE dispatched
                    /\ tool_calls' =
                         Append(tool_calls,
                                ToolCallRecord(Get(tool_name), InputOrEmpty(tool_input),
                                               format_tool_result(result),
                                               result.success, error))
                    /\ UNCHANGED telemetry
    /\ pc' = "vendor_refine"
    /\ UNCHANGED <<turnVars, stageVars, vendor_action, final_response, legacyVars>>

\* should_run_observer (graph.py:602-606)
should_run_observer(n) == IF n >= MIN_CONTEXT_FOR_OBSERVER THEN "observer" ELSE "END"

\* vendor_refine_node (graph.py:468-498) and the edge after it
\* (graph.py:645-649)
VendorRefineNode ==
    /\ pc = "vendor_refine"
    /\ LET action == Get(vendor_action)
       IN IF ~TruthyStr(tool_result)
          THEN final_response' = Some(<<action.mensaje>>)
          ELSE \E llm \in {"ok", "raise"} :
                 final_response' =
                     Some(refine_with_tool_result(
                            action.mensaje,
                            IF ~ToolSuccessOrTrue(tool_success) /\ TruthyStr(tool_error)
                            THEN "La herramienta falló: " \o Get(tool_error)
                                 \o ". Resultado: " \o Get(tool_result)
                            ELSE Get(tool_result),
                            llm))
    /\ pc' = should_run_observer(history_len)
    /\ UNCHANGED <<turnVars, stageVars, vendor_action, toolVars, legacyVars>>

\* response_builder_node (graph.py:501-509) and the edge after it
\* (graph.py:651-655)
ResponseBuilderNode ==
    /\ pc = "response_builder"
    /\ final_response' = Some(<<Get(vendor_action).mensaje>>)
    /\ pc' = should_run_observer(history_len)
    /\ UNCHANGED <<turnVars, stageVars, vendor_action, toolVars, legacyVars>>

\* ObserverOutput (vendor_state.py:187-191); objeciones are read by no node
ObserverOutput(fallas, recomendaciones) ==
    [fallas |-> fallas, recomendaciones |-> recomendaciones]

F_CRITICAL == "No respondió la pregunta del cliente"
F_MINOR == "Respuesta demasiado larga"

\* What ObserverAgent.analyze returns (observer.py:260-328): the model's
\* lists, or empty lists when it raised or wrote no JSON
ObserverOutputs ==
    {ObserverOutput(f, r) :
        f \in {<<>>, <<F_CRITICAL>>, <<F_MINOR>>},
        r \in {<<>>, <<"Mencionar formas de pago">>}}

\* observer_node (graph.py:512-534)
ObserverNode ==
    /\ pc = "observer"
    /\ IF history_len < MIN_CONTEXT_FOR_OBSERVER
          \/ IsNone(final_response) \/ Get(final_response) \in {<<>>, <<"">>}
       THEN observer_output' = None
       ELSE \E out \in ObserverOutputs : observer_output' = Some(out)
    /\ pc' = "retry_decision"
    /\ UNCHANGED <<turnVars, stageVars, vendor_action, toolVars, final_response,
                   retry_count, needs_retry, refiner_output, pending_rules,
                   ruleVars>>

\* a critical keyword is in falla.lower() (graph.py:547-551), for the
\* failures of this model
has_critical_failure(fallas) == InSeq(F_CRITICAL, fallas)

\* should_retry_or_continue (graph.py:609-612)
should_retry_or_continue(retry) == IF retry THEN "vendor" ELSE "refiner"

\* mutant of RetryDecisionNode: the retry is decided on the failures alone,
\* without the test of retry_count
RetryDecisionNode_unbounded ==
    /\ pc = "retry_decision"
    /\ IF IsNone(observer_output)
          \/ ~has_critical_failure(Get(observer_output).fallas)
       THEN /\ needs_retry' = FALSE
            /\ pc' = should_retry_or_continue(FALSE)
            /\ UNCHANGED <<retry_count, final_response, vendor_action>>
       ELSE /\ needs_retry' = TRUE
            /\ retry_count' = retry_count + 1
            /\ final_response' = None
            /\ vendor_action' = None
            /\ pc' = should_retry_or_continue(TRUE)
    /\ UNCHANGED <<turnVars, stageVars, toolVars, observer_output, refiner_output,
                   pending_rules, ruleVars>>

\* retry_decision_node (graph.py:537-563) and the edge after it
\* (graph.py:659-663)
RetryDecisionNode ==
    /\ pc = "retry_decision"
    /\ IF IsNone(observer_output) \/ retry_count >= MAX_RETRY_ATTEMPTS
          \/ ~has_critical_failure(Get(observer_output).fallas)
       THEN /\ needs_retry' = FALSE
            /\ pc' = should_retry_or_continue(FALSE)
            /\ UNCHANGED <<retry_count, final_response, vendor_action>>
       ELSE /\ needs_retry' = TRUE
            /\ retry_count' = retry_count + 1
            /\ final_response' = None
            /\ vendor_action' = None
            /\ pc' = should_retry_or_continue(TRUE)
    /\ UNCHANGED <<turnVars, stageVars, toolVars, observer_output, refiner_output,
                   pending_rules, ruleVars>>

\* an entry of the pending collection (refiner.py:229-233, 414-418); its
\* justificacion is optional, as RefinerOutput's is
PendingRule(regla, justificacion) ==
    [regla |-> regla, justificacion |-> justificacion, estado |-> "pendiente"]

LastN(seq, n) == IF Len(seq) <= n THEN seq ELSE SubSeq(seq, Len(seq) - n + 1, Len(seq))

RECURSIVE append_new_legacy(_, _)
\* the loop of RefinerAgent._save_learning_legacy (refiner.py:412-418)
append_new_legacy(existing_pending, rules) ==
    IF rules = <<>> THEN existing_pending
    ELSE append_new_legacy(
            IF \E i \in 1..Len(existing_pending) : existing_pending[i].regla = Head(rules)
            THEN existing_pending
            ELSE Append(existing_pending,
                        PendingRule(Head(rules),
                                    Some("Generado automáticamente por sistema legacy"))),
            Tail(rules))

\* RefinerAgent._save_learning_legacy (refiner.py:396-427): the pending
\* collection it stores
save_learning_legacy(existing_pending, rules) ==
    LastN(append_new_legacy(existing_pending, rules), PENDING_CAP)

\* What the refiner model proposes in RefinerAgent.refine (refiner.py:355-362):
\* the 'nuevas_reglas' of its answer; none when it raised or wrote no JSON
LegacyProposals ==
    {<<>>, <<"Mencionar formas de pago">>,
     <<"Mencionar formas de pago", "Ofrecer alternativa si no hay stock">>}

\* refiner_node (graph.py:566-592) with RefinerAgent.refine
\* (refiner.py:326-371); the key-value store is there or is not
RefinerNode ==
    /\ pc = "refiner"
    /\ IF IsNone(observer_output)
          \/ (Get(observer_output).fallas = <<>>
              /\ Get(observer_output).recomendaciones = <<>>)
       THEN refiner_output' = None /\ UNCHANGED pending_rules
       ELSE \E rules \in LegacyProposals, store_up \in BOOLEAN :
              /\ refiner_output' = Some(rules)
              /\ pending_rules' =
                   IF rules # <<>> /\ store_up
                   THEN save_learning_legacy(pending_rules, rules)
                   ELSE pending_rules
    /\ pc' = "END"
    /\ UNCHANGED <<turnVars, stageVars, vendor_action, toolVars, final_response,
                   observer_output, retry_count, needs_retry, ruleVars>>

\* ----------------------------------- the stages after the Decision Stage

\* the actions handed to the Tool Execution Gate: no tool, every tool name,
\* every kind of input
GateActions ==
    {AgentAction("tool", "Claro, te ayudo", t, p) :
        t \in {None} \cup {Some(n) : n \in ToolNames},
        p \in {None} \cup {Some(k) : k \in ParamKinds}}

ExecutionVendorOutputs ==
    {VendorOutput(i, "Claro, te ayudo", TRUE, None, None, 80) : i \in Intenciones}

ExecutionCommercialStates ==
    {CommercialState(e, None, c[1], c[2], Some(4990), TRUE, Some("load_state")) :
        e \in Etapas, c \in Carts}

\* The Tool Execution Gate, the State Update Stage and Response Finalization,
\* from every action, interpretation and commercial state of the sets above,
\* with state_valid true or false.
ExecutionInit ==
    /\ entry = "state_governed"
    /\ lead_memory = None
    /\ history_len = 0
    /\ iteration_count = 0
    /\ observer_response = None
    /\ tool_result = None
    /\ tool_success = None
    /\ tool_error = None
    /\ tool_calls = <<>>
    /\ dispatched = <<>>
    /\ telemetry = <<>>
    /\ final_response = None
    /\ observer_output = None
    /\ retry_count = 0
    /\ needs_retry = FALSE
    /\ refiner_output = None
    /\ pending_rules = <<>>
    /\ active_rules = <<>>
    /\ store_call = None
    /\ store_ops = 0
    /\ approver = ApproverIdle
    /\ saver = SaverIdle
    /\ pc = "execute_tool"
    /\ commercial_state \in {None} \cup {Some(cs) : cs \in ExecutionCommercialStates}
    /\ vendor_output \in {None} \cup {Some(vo) : vo \in ExecutionVendorOutputs}
    /\ observer_validation = None
    /\ state_valid \in BOOLEAN
    /\ \E a \in GateActions :
         /\ vendor_action = Some(a)
         /\ graph_decision = Some("execute_tool")

ExecutionNext ==
    \/ ExecuteToolNode
    \/ LogToolExecution
    \/ UpdateStateNode
    \/ FinalizeResponseNode

ExecutionSpec == ExecutionInit /\ [][ExecutionNext]_vars

\* ------------------------------------------------ the rule store methods

\* active_data["reglas"][-50:] (refiner.py:270)
ACTIVE_CAP == 50

\* how many calls on the store one run makes
MaxStoreOps == 3

R_PAGO == "Mencionar formas de pago"
R_STOCK == "Ofrecer alternativa si no hay stock"

\* RefinerOutput (vendor_state.py:152-160); respuestas_sugeridas are stored
\* by no method
RefinerOutput(nuevas_reglas_pendientes, reglas_a_desactivar, justificacion) ==
    [nuevas_reglas_pendientes |-> nuevas_reglas_pendientes,
     reglas_a_desactivar |-> reglas_a_desactivar,
     justificacion |-> justificacion]

\* mutant of str_in_entries: the string is compared with the entries' "regla"
str_in_entries_by_regla(rule, existing_pending) ==
    \E i \in 1..Len(existing_pending) : existing_pending[i].regla = rule

\* `rule not in existing_pending` (refiner.py:228): rule is a str and the
\* entries of existing_pending are the dicts appended at 229-233, and a str
\* equals no dict
str_in_entries(rule, existing_pending) == FALSE

RECURSIVE append_new_controlled(_, _, _)
\* the loop of RefinerAgent._save_pending_rules (refiner.py:227-233)
append_new_controlled(existing_pending, rules, justificacion) ==
    IF rules = <<>> THEN existing_pending
    ELSE append_new_controlled(
            IF str_in_entries(Head(rules), existing_pending)
            THEN existing_pending
            ELSE Append(existing_pending, PendingRule(Head(rules), justificacion)),
            Tail(rules), justificacion)

\* mutant of save_pending_rules: the first 30 entries are kept
save_pending_rules_keeps_oldest(existing_pending, output) ==
    LET all == append_new_controlled(existing_pending,
                   output.nuevas_reglas_pendientes, output.justificacion)
    IN IF Len(all) <= PENDING_CAP THEN all ELSE SubSeq(all, 1, PENDING_CAP)

\* RefinerAgent._save_pending_rules (refiner.py:211-242) with the store
\* there: the pending collection it stores
save_pending_rules(existing_pending, output) ==
    LastN(append_new_controlled(existing_pending,
              output.nuevas_reglas_pendientes, output.justificacion),
          PENDING_CAP)

\* RefinerAgent.propose_rules (refiner.py:128-184): the output it returns and
\* the pending collection it leaves; llm_output is what
\* _parse_controlled_response made of the model's answer
propose_rules(verdict, llm_output, existing_pending, store_up) ==
    IF verdict.warnings = <<>> /\ verdict.errores = <<>>
    THEN [output |-> RefinerOutput(<<>>, <<>>, None), pending |-> existing_pending]
    ELSE [output |-> llm_output,
          pending |->
            IF /\ \/ llm_output.nuevas_reglas_pendientes # <<>>
                  \/ llm_output.reglas_a_desactivar # <<>>
               /\ store_up
            THEN save_pending_rules(existing_pending, llm_output)
            ELSE existing_pending]

\* list.pop(rule_index) after `rule_index >= len(pending_rules)` was false
\* (refiner.py:258-262, 296-300): the position popped, 0 when pop raises
\* IndexError
PopPosition(pending, rule_index) ==
    IF rule_index >= 0 THEN rule_index + 1
    ELSE IF Len(pending) + rule_index >= 0 THEN Len(pending) + rule_index + 1
    ELSE 0

RemoveAt(seq, k) == SubSeq(seq, 1, k - 1) \o SubSeq(seq, k + 1, Len(seq))

\* what a method does not change and answers False on
StoreRefusal(pending, active) ==
    [ret |-> FALSE, pending |-> pending, active |-> active, entry |-> None]

\* mutant of approve_rule: a rule that is already active is not appended again
approve_rule_once(pending, active, rule_index, fault) ==
    LET k == PopPosition(pending, rule_index)
    IN IF fault = "down" \/ rule_index >= Len(pending) \/ k = 0
       THEN StoreRefusal(pending, active)
       ELSE [ret |-> fault = "none",
             pending |-> RemoveAt(pending, k),
             active |->
                IF fault = "none" /\ ~InSeq(pending[k].regla, active)
                THEN LastN(Append(active, pending[k].regla), ACTIVE_CAP)
                ELSE active,
             entry |-> Some(pending[k])]

\* RefinerAgent.approve_rule (refiner.py:244-280): what it returns, the two
\* collections it leaves and the entry it popped. fault: "none", "down" (no
\* client, or the read raised), "between" (the second client.set raised
\* after the first one stored the pending collection)
approve_rule(pending, active, rule_index, fault) ==
    LET k == PopPosition(pending, rule_index)
    IN IF fault = "down" \/ rule_index >= Len(pending) \/ k = 0
       THEN StoreRefusal(pending, active)
       ELSE [ret |-> fault = "none",
             pending |-> RemoveAt(pending, k),
             active |->
                IF fault = "none"
                THEN LastN(Append(active, pending[k].regla), ACTIVE_CAP)
                ELSE active,
             entry |-> Some(pending[k])]

\* RefinerAgent.reject_rule (refiner.py:282-308)
reject_rule(pending, active, rule_index, fault) ==
    LET k == PopPosition(pending, rule_index)
    IN IF fault = "down" \/ rule_index >= Len(pending) \/ k = 0
       THEN StoreRefusal(pending, active)
       ELSE [ret |-> TRUE, pending |-> RemoveAt(pending, k), active |-> active,
             entry |-> Some(pending[k])]

\* RefinerAgent.get_pending_rules (refiner.py:310-324)
get_pending_rules(pending, store_up) == IF store_up THEN pending ELSE <<>>

\* _get_redis_client (refiner.py:94-103): no client when the store is not there
FaultOf(store_up) == IF store_up THEN "none" ELSE "down"

\* a call on the store: the method, how the store behaved during it, its
\* index, what it returned, the entry it popped, the rules the model proposed
\* and the entries it listed
StoreCall(op, fault, rule_index, ret, popped, proposed, listed) ==
    [op |-> op, fault |-> fault, rule_index |-> rule_index, ret |-> ret,
     entry |-> popped, proposed |-> proposed, listed |-> listed]

\* ------------------------------------------ inputs of the rule-store runs

Filler(i) == "Regla " \o ToString(i)

\* a pending collection of n entries and an active one of n rules, as earlier
\* refinement runs and approvals left them
FilledPending(n) == [i \in 1..n |-> PendingRule(Filler(i), Some("Patrón detectado"))]
FilledActive(n) == [i \in 1..n |-> Filler(100 + i)]

\* and the store refine, approve_rule, refine leave: a rule approved and
\* proposed again
RuleStores ==
    {<<<<>>, <<>>>>,
     <<save_learning_legacy(<<>>, <<R_PAGO>>), <<R_PAGO>>>>,
     <<FilledPending(PENDING_CAP - 1), FilledActive(ACTIVE_CAP - 1)>>,
     <<FilledPending(PENDING_CAP), FilledActive(ACTIVE_CAP)>>}

\* the verdicts handed to propose_rules
RuleVerdicts ==
    {ObserverValidation(TRUE, <<>>, <<>>),
     ObserverValidation(TRUE, <<>>, <<LLM_WARNING>>),
     ObserverValidation(FALSE, <<E_PAGO_SIN_CONFIRMADOS>>, <<>>)}

\* What _parse_controlled_response returns (refiner.py:186-209): the model's
\* lists, or an empty RefinerOutput when it wrote no JSON
ControlledOutputs ==
    {RefinerOutput(<<>>, <<>>, None),
     RefinerOutput(<<R_PAGO>>, <<>>, Some("Patrón detectado")),
     RefinerOutput(<<R_PAGO, R_STOCK>>, <<>>, Some("Patrón detectado"))}

\* the rule_index of a call of approve_rule or reject_rule
RuleIndexes == {-1, 0, 1}

StoreFaults == {"none", "down", "between"}

\* ------------------------------------------------- the rule-store actions

\* a call of RefinerAgent.propose_rules
ProposeRules ==
    /\ pc = "store" /\ store_ops < MaxStoreOps
    /\ \E verdict \in RuleVerdicts, llm_output \in ControlledOutputs,
          store_up \in BOOLEAN :
         LET r == propose_rules(verdict, llm_output, pending_rules, store_up)
         IN /\ observer_validation' = Some(verdict)
            /\ pending_rules' = r.pending
            /\ store_call' = Some(StoreCall("propose_rules", FaultOf(store_up),
                                            0, TRUE, None,
                                            r.output.nuevas_reglas_pendientes, <<>>))
    /\ store_ops' = store_ops + 1
    /\ UNCHANGED raceVars
    /\ UNCHANGED <<pc, turnVars, commercial_state, vendor_output, observer_response,
                   state_valid, graph_decision, vendor_action, toolVars,
                   final_response, observer_output, retry_count, needs_retry,
                   refiner_output, active_rules>>

\* mutant of Refine: the legacy save appends to the active collection, as
\* before it was redirected to the pending one
Refine_saves_active ==
    /\ pc = "store" /\ store_ops < MaxStoreOps
    /\ \E oo \in ObserverOutputs, rules \in LegacyProposals, store_up \in BOOLEAN :
         LET triggered == oo.fallas # <<>> \/ oo.recomendaciones # <<>>
         IN /\ observer_output' = Some(oo)
            /\ active_rules' =
                 IF triggered /\ rules # <<>> /\ store_up
                 THEN LastN(active_rules \o rules, ACTIVE_CAP)
                 ELSE active_rules
            /\ store_call' = Some(StoreCall("refine", FaultOf(store_up),
                                            0, TRUE, None,
                                            IF triggered THEN rules ELSE <<>>, <<>>))
    /\ store_ops' = store_ops + 1
    /\ UNCHANGED raceVars
    /\ UNCHANGED <<pc, turnVars, stageVars, vendor_action, toolVars, final_response,
                   retry_count, needs_retry, refiner_output, pending_rules>>

\* a call of RefinerAgent.refine (refiner.py:326-371)
Refine ==
    /\ pc = "store" /\ store_ops < MaxStoreOps
    /\ \E oo \in ObserverOutputs, rules \in LegacyProposals, store_up \in BOOLEAN :
         LET triggered == oo.fallas # <<>> \/ oo.recomendaciones # <<>>
         IN /\ observer_output' = Some(oo)
            /\ pending_rules' =
                 IF triggered /\ rules # <<>> /\ store_up
                 THEN save_learning_legacy(pending_rules, rules)
                 ELSE pending_rules
            /\ store_call' = Some(StoreCall("refine", FaultOf(store_up),
                                            0, TRUE, None,
                                            IF triggered THEN rules ELSE <<>>, <<>>))
    /\ store_ops' = store_ops + 1
    /\ UNCHANGED raceVars
    /\ UNCHANGED <<pc, turnVars, stageVars, vendor_action, toolVars, final_response,
                   retry_count, needs_retry, refiner_output, active_rules>>

\* a call of RefinerAgent.approve_rule
ApproveRule ==
    /\ pc = "store" /\ store_ops < MaxStoreOps
    /\ \E rule_index \in RuleIndexes, fault \in StoreFaults :
         LET r == approve_rule(pending_rules, active_rules, rule_index, fault)
         IN /\ pending_rules' = r.pending
            /\ active_rules' = r.active
            /\ store_call' = Some(StoreCall("approve_rule", fault,
                                            rule_index, r.ret,
                                            r.entry, <<>>, <<>>))
    /\ store_ops' = store_ops + 1
    /\ UNCHANGED raceVars
    /\ UNCHANGED <<pc, turnVars, stageVars, vendor_action, toolVars, final_response,
                   observer_output, retry_count, needs_retry, refiner_output>>

\* a call of RefinerAgent.reject_rule
RejectRule ==
    /\ pc = "store" /\ store_ops < MaxStoreOps
    /\ \E rule_index \in RuleIndexes, fault \in {"none", "down"} :
         LET r == reject_rule(pending_rules, active_rules, rule_index, fault)
         IN /\ pending_rules' = r.pending
            /\ active_rules' = r.active
            /\ store_call' = Some(StoreCall("reject_rule", fault,
                                            rule_index, r.ret,
                                            r.entry, <<>>, <<>>))
    /\ store_ops' = store_ops + 1
    /\ UNCHANGED raceVars
    /\ UNCHANGED <<pc, turnVars, stageVars, vendor_action, toolVars, final_response,
                   observer_output, retry_count, needs_retry, refiner_output>>

\* a call of RefinerAgent.get_pending_rules
GetPendingRules ==
    /\ pc = "store" /\ store_ops < MaxStoreOps
    /\ \E store_up \in BOOLEAN :
         store_call' = Some(StoreCall("get_pending_rules", FaultOf(store_up),
                                            0, TRUE, None, <<>>,
                                      get_pending_rules(pending_rules, store_up)))
    /\ store_ops' = store_ops + 1
    /\ UNCHANGED raceVars
    /\ UNCHANGED <<pc, turnVars, stageVars, vendor_action, toolVars, final_response,
                   observer_output, retry_count, needs_retry, refiner_output,
                   pending_rules, active_rules>>

\* The methods of RefinerAgent called in any order on the store of one
\* business, from an empty store and from stores at and next to their caps.
RuleStoreInit ==
    /\ pc = "store"
    /\ entry = "refiner_agent"
    /\ lead_memory = None
    /\ history_len = 0
    /\ iteration_count = 0
    /\ commercial_state = None
    /\ vendor_output = None
    /\ observer_response = None
    /\ observer_validation = None
    /\ state_valid = TRUE
    /\ graph_decision = None
    /\ vendor_action = None
    /\ tool_result = None
    /\ tool_success = None
    /\ tool_error = None
    /\ tool_calls = <<>>
    /\ dispatched = <<>>
    /\ telemetry = <<>>
    /\ final_response = None
    /\ observer_output = None
    /\ retry_count = 0
    /\ needs_retry = FALSE
    /\ refiner_output = None
    /\ \E st \in RuleStores : pending_rules = st[1] /\ active_rules = st[2]
    /\ store_call = None
    /\ store_ops = 0
    /\ approver = ApproverIdle
    /\ saver = SaverIdle

RuleStoreNext ==
    \/ ProposeRules
    \/ Refine
    \/ ApproveRule
    \/ RejectRule
    \/ GetPendingRules

RuleStoreSpec == RuleStoreInit /\ [][RuleStoreNext]_vars

\* ------------------- approve_rule and _save_pending_rules, call by call

\* Two callers on the store of one business (two workers, or a worker and
\* the process that serves the approval): each store call of approve_rule
\* (refiner.py:254, 265, 272, 273) and of _save_pending_rules (refiner.py:223,
\* 236) is a step, and the steps of the two calls interleave in any order.

\* the pending collections the two calls find: one entry, two, a full one
RaceStores == {FilledPending(1), FilledPending(2), FilledPending(PENDING_CAP)}

\* the step every action of these runs shares: nothing of a turn changes
RaceFrame ==
    /\ pc = "race"
    /\ UNCHANGED <<pc, turnVars, stageVars, vendor_action, toolVars, final_response,
                   observer_output, retry_count, needs_retry, refiner_output,
                   store_call, store_ops>>

\* approve_rule, client.get(pending_key) to pending_rules.pop (refiner.py:254-262)
ApproveReadPending ==
    /\ RaceFrame
    /\ approver.at = "idle"
    /\ \E rule_index \in {0, 1} :
         LET k == PopPosition(pending_rules, rule_index)
         IN approver' =
              IF pending_rules = <<>> \/ rule_index >= Len(pending_rules) \/ k = 0
              THEN [approver EXCEPT !.at = "done", !.rule_index = rule_index,
                                    !.ret = FALSE]
              ELSE [approver EXCEPT !.at = "popped", !.rule_index = rule_index,
                                    !.pending = RemoveAt(pending_rules, k),
                                    !.entry = Some(pending_rules[k])]
    /\ UNCHANGED <<pending_rules, active_rules, saver>>

\* approve_rule, client.get(active_key) to the [-50:] slice (refiner.py:264-270)
ApproveReadActive ==
    /\ RaceFrame
    /\ approver.at = "popped"
    /\ approver' =
         [approver EXCEPT !.at = "appended",
                          !.active = LastN(Append(active_rules, Get(approver.entry).regla),
                                           ACTIVE_CAP)]
    /\ UNCHANGED <<pending_rules, active_rules, saver>>

\* approve_rule, client.set(pending_key, ...) (refiner.py:272)
ApproveWritePending ==
    /\ RaceFrame
    /\ approver.at = "appended"
    /\ pending_rules' = approver.pending
    /\ approver' = [approver EXCEPT !.at = "pending_set"]
    /\ UNCHANGED <<active_rules, saver>>

\* approve_rule, client.set(active_key, ...) and return True (refiner.py:273-276)
ApproveWriteActive ==
    /\ RaceFrame
    /\ approver.at = "pending_set"
    /\ active_rules' = approver.active
    /\ approver' = [approver EXCEPT !.at = "done", !.ret = TRUE]
    /\ UNCHANGED <<pending_rules, saver>>

\* _save_pending_rules, client.get(pending_key) to the [-30:] slice
\* (refiner.py:221-235)
SaveReadPending ==
    /\ RaceFrame
    /\ saver.at = "idle"
    /\ \E output \in ControlledOutputs :
         /\ output.nuevas_reglas_pendientes # <<>>
         /\ saver' = [at |-> "appended", output |-> Some(output),
                      pending |-> save_pending_rules(pending_rules, output)]
    /\ UNCHANGED <<pending_rules, active_rules, approver>>

\* _save_pending_rules, client.set(pending_key, ...) (refiner.py:236)
SaveWritePending ==
    /\ RaceFrame
    /\ saver.at = "appended"
    /\ pending_rules' = saver.pending
    /\ saver' = [saver EXCEPT !.at = "done"]
    /\ UNCHANGED <<active_rules, approver>>

RaceInit ==
    /\ pc = "race"
    /\ entry = "refiner_agent"
    /\ lead_memory = None
    /\ history_len = 0
    /\ iteration_count = 0
    /\ commercial_state = None
    /\ vendor_output = None
    /\ observer_response = None
    /\ observer_validation = None
    /\ state_valid = TRUE
    /\ graph_decision = None
    /\ vendor_action = None
    /\ tool_result = None
    /\ tool_success = None
    /\ tool_error = None
    /\ tool_calls = <<>>
    /\ dispatched = <<>>
    /\ telemetry = <<>>
    /\ final_response = None
    /\ observer_output = None
    /\ retry_count = 0
    /\ needs_retry = FALSE
    /\ refiner_output = None
    /\ pending_rules \in RaceStores
    /\ active_rules \in {<<>>, FilledActive(ACTIVE_CAP)}
    /\ store_call = None
    /\ store_ops = 0
    /\ approver = ApproverIdle
    /\ saver = SaverIdle

RaceNext ==
    \/ ApproveReadPending
    \/ ApproveReadActive
    \/ ApproveWritePending
    \/ ApproveWriteActive
    \/ SaveReadPending
    \/ SaveWritePending

RaceSpec == RaceInit /\ [][RaceNext]_vars

\* ------------------------------------------------------------------ a turn

\* lead_memory["current_stage"] as get_memory returns it (memory.py:32-66):
\* None, a stage name, or another string
MemoryStages == {None, Some("vip")} \cup {Some(e) : e \in Etapas}

\* generate_response (main.py:143-265) up to graph.ainvoke: the graph of
\* get_agent_graph, the legacy one (main.py:221-222)
GenerateResponse ==
    /\ pc = "idle"
    /\ entry' = "generate_response"
    /\ history_len' \in 0..MaxHistory
    /\ pc' = "vendor"
    /\ UNCHANGED <<lead_memory, iteration_count, stageVars, vendor_action, toolVars, final_response,
                   legacyVars>>

\* the graph of get_state_governed_graph (graph.py:670-706, 721-726) invoked
\* on the initial state of a turn
InvokeStateGoverned ==
    /\ pc = "idle"
    /\ entry' = "state_governed"
    /\ lead_memory' \in MemoryStages
    /\ pc' = "load_state"
    /\ UNCHANGED <<history_len, iteration_count, stageVars, vendor_action, toolVars, final_response,
                   legacyVars>>

Init ==
    /\ pc = "idle"
    /\ entry = "none"
    /\ lead_memory = None
    /\ history_len = 0
    /\ iteration_count = 0
    /\ commercial_state = None
    /\ vendor_output = None
    /\ observer_response = None
    /\ observer_validation = None
    /\ state_valid = TRUE
    /\ graph_decision = None
    /\ vendor_action = None
    /\ tool_result = None
    /\ tool_success = None
    /\ tool_error = None
    /\ tool_calls = <<>>
    /\ dispatched = <<>>
    /\ telemetry = <<>>
    /\ final_response = None
    /\ observer_output = None
    /\ retry_count = 0
    /\ needs_retry = FALSE
    /\ refiner_output = None
    /\ pending_rules = <<>>
    /\ active_rules = <<>>
    /\ store_call = None
    /\ store_ops = 0
    /\ approver = ApproverIdle
    /\ saver = SaverIdle

Next ==
    \/ GenerateResponse
    \/ InvokeStateGoverned
    \/ LoadStateNode
    \/ VendorInterpretNode
    \/ StateValidationNode
    \/ DecideActionNode
    \/ ExecuteToolNode
    \/ LogToolExecution
    \/ UpdateStateNode
    \/ FinalizeResponseNode
    \/ VendorNode
    \/ ToolRouterNode
    \/ VendorRefineNode
    \/ ResponseBuilderNode
    \/ ObserverNode
    \/ RetryDecisionNode
    \/ RefinerNode

Spec == Init /\ [][Next]_vars

\* The turns of the legacy graph alone (graph.py:623-667), every node
\* running once it is reached: LangGraph runs the node an edge leads to.
LegacyNext ==
    \/ GenerateResponse
    \/ VendorNode
    \/ ToolRouterNode
    \/ VendorRefineNode
    \/ ResponseBuilderNode
    \/ ObserverNode
    \/ RetryDecisionNode
    \/ RefinerNode

LegacySpec == Init /\ [][LegacyNext]_vars /\ WF_vars(LegacyNext)

\* ------------------------------------------------------------------ claims

Decided == ~IsNone(graph_decision)
Validated == ~IsNone(observer_validation)
Verdict == Get(observer_validation)
HasState == ~IsNone(commercial_state)
HasOutput == ~IsNone(vendor_output)

\* validate reached _apply_hardcoded_rules (observer.py:180-182)
HardRulesRan == ~IsNone(observer_response) /\ Get(observer_response).kind \in {"json", "not_json"}
Tier1Failed ==
    ~IsNone(observer_response)
    /\ Get(observer_response).kind \in {"raise", "not_json", "bad_shape"}

PaymentWithoutConfirmed ==
    /\ HasOutput /\ Get(vendor_output).tool_sugerida = Some("payment")
    /\ HasState /\ Get(commercial_state).productos_confirmados = <<>>

RespondsWithReply ==
    /\ Get(graph_decision) = "response_only"
    /\ ~IsNone(vendor_action)
    /\ Get(vendor_action).accion = "respuesta"
    /\ Get(vendor_action).mensaje = Get(vendor_output).mensaje
    /\ IsNone(Get(vendor_action).nombre_tool)
    /\ pc = "finalize"

\* C1: whenever the validation verdict has estado_valido = false, the Decision
\* Stage answers 'respuesta' with the interpretation's reply text and no tool
\* name, and the graph does not go to execute_tool.
C1_InvalidVerdictResponds ==
    (Decided /\ Validated /\ ~Verdict.estado_valido) => RespondsWithReply

\* C1 witness: an invalid verdict met an interpretation asking for a tool the
\* state would otherwise allow, and the decision was taken.
C1_Witness ==
    /\ Decided /\ Validated /\ ~Verdict.estado_valido
    /\ Get(vendor_output).requiere_tool
    /\ Get(vendor_output).tool_sugerida = Some("search_product")
    /\ HasState
    /\ Get(graph_decision) = "response_only"

\* C2: can_execute_tool answers false for every tool when estado_valido is
\* false, and answers true for payment only with confirmed products, a total
\* that is set and positive, and estado_valido true; in every stage.
C2_PaymentGate ==
    HasState =>
        LET cs == Get(commercial_state)
        IN /\ \A t \in ToolNames : ~cs.estado_valido => ~can_execute_tool(cs, t).ok
           /\ can_execute_tool(cs, "payment").ok =>
                /\ cs.productos_confirmados # <<>>
                /\ ~IsNone(cs.total_calculado)
                /\ Get(cs.total_calculado) > 0
                /\ cs.estado_valido

\* C2 witness: the Decision Stage asked can_execute_tool about payment in a
\* valid state with a confirmed product and a negative total, and was refused.
C2_Witness ==
    /\ Decided /\ state_valid /\ HasState /\ HasOutput
    /\ Get(vendor_output).requiere_tool
    /\ Get(vendor_output).tool_sugerida = Some("payment")
    /\ Get(commercial_state).estado_valido
    /\ Get(commercial_state).etapa_comercial = "confirmando"
    /\ Get(commercial_state).productos_confirmados # <<>>
    /\ Get(commercial_state).total_calculado = Some(0 - 100)
    /\ Get(graph_decision) = "response_only"

\* the Decision Stage's two checks for a tool (graph.py:217-239)
GatePasses(cs, tool_name) ==
    /\ can_execute_tool(cs, tool_name).ok
    /\ \/ InSeq(tool_name, get_next_valid_actions(cs))
       \/ tool_name \in {"search_product", "search_knowledge"}

\* C3: on every path from the turn's entry points, a tool handler has been
\* dispatched only if the Validation Stage gave a valid verdict and the
\* Decision Stage chose execute_tool after can_execute_tool and the stage's
\* allowed-tool set let that tool through.
C3_NoToolWithoutGate ==
    dispatched # <<>> =>
        /\ Validated /\ Verdict.estado_valido
        /\ graph_decision = Some("execute_tool")
        /\ HasState
        /\ \A i \in 1..Len(dispatched) :
             /\ can_execute_tool(Get(commercial_state), dispatched[i].tool).ok
             /\ pc = "update_state" => GatePasses(Get(commercial_state), dispatched[i].tool)

\* every confirmed product is one of the detected products
ConfirmedAreDetected(cs) ==
    \A i \in 1..Len(cs.productos_confirmados) :
        InSeq(cs.productos_confirmados[i], cs.productos_detectados)

\* C4: in every CommercialState a turn reaches, after load_state and after
\* update_state, productos_confirmados is a subset of productos_detectados.
C4_ConfirmedSubsetDetected ==
    HasState => ConfirmedAreDetected(Get(commercial_state))

\* C4 witness: update_state ran on a purchase confirmation after a tool was
\* executed, on the state load_state had built.
C4_Witness ==
    /\ HasState /\ entry = "state_governed"
    /\ Get(commercial_state).ultima_actualizacion = Some("update_state")
    /\ Get(commercial_state).intencion_actual = Some("confirmacion_compra")
    /\ tool_calls # <<>>

HasHardError == ~Verdict.estado_valido /\ InSeq(E_PAGO_SIN_CONFIRMADOS, Verdict.errores)

\* C5: also when the tier-1 check fails (the call raises, or its output is
\* not parsed), payment suggested with no confirmed product gives
\* estado_valido = false with the hard error.
C5_HardRulesOnTier1Failure ==
    (Validated /\ Tier1Failed /\ PaymentWithoutConfirmed) => HasHardError

\* C6: when the tier-1 check fails and no hard rule fires, the verdict is
\* valid with at least one warning and the turn goes on to the Decision Stage.
C6_FailsOpen ==
    (Validated /\ Tier1Failed /\ ~PaymentWithoutConfirmed) =>
        /\ Verdict.estado_valido
        /\ Verdict.errores = <<>>
        /\ Verdict.warnings # <<>>
        /\ state_valid
        /\ pc \in {"decide_action", "execute_tool", "finalize"}

\* C6 witness: the validator's call raised for an interpretation that asks
\* for a tool, and the Decision Stage then ran on the open verdict.
C6_Witness ==
    /\ Validated /\ Get(observer_response).kind = "raise"
    /\ ~PaymentWithoutConfirmed
    /\ Get(vendor_output).requiere_tool
    /\ Decided /\ Get(graph_decision) = "execute_tool"

IsPrefix(s, t) == Len(s) <= Len(t) /\ SubSeq(t, 1, Len(s)) = s

\* C7: after the hard rules ran, the verdict is invalid whenever tier 1 said
\* invalid, and tier 1's errors and warnings are still there, in place.
C7_Tier2OnlyAdds ==
    (Validated /\ HardRulesRan) =>
        LET tier1 == parse_validation(Get(observer_response))
        IN /\ ~tier1.estado_valido => ~Verdict.estado_valido
           /\ IsPrefix(tier1.errores, Verdict.errores)
           /\ IsPrefix(tier1.warnings, Verdict.warnings)

\* C7 witness: tier 1 gave an invalid verdict with an error and a warning of
\* its own, and the hard rules added an error and warnings to it.
C7_Witness ==
    /\ Validated /\ HardRulesRan
    /\ Get(observer_response).estado_valido = Some(FALSE)
    /\ Get(observer_response).errores # <<>>
    /\ Get(observer_response).warnings # <<>>
    /\ Len(Verdict.errores) = 2
    /\ Len(Verdict.warnings) = 3

\* C8: payment suggested with no confirmed product gives estado_valido =
\* false with a hard error, whatever the tier-1 check answered.
C8_PaymentNeedsConfirmed ==
    (Validated /\ PaymentWithoutConfirmed) => HasHardError

ScenarioA ==
    /\ HasOutput /\ Get(vendor_output).intencion = "confirmacion_compra"
    /\ HasState /\ Get(commercial_state).productos_confirmados = <<>>

HasConfirmadosError ==
    /\ ~Verdict.estado_valido
    /\ \E i \in 1..Len(Verdict.errores) : ContainsConfirmados(Verdict.errores[i])

SoftWarnings(vo) ==
    (IF vo.tool_sugerida = Some("payment") /\ vo.intencion # "confirmacion_compra"
     THEN <<W_PAYMENT_INTENT>> ELSE <<>>)
    \o (IF vo.confianza < LOW_CONFIDENCE THEN <<W_LOW_CONFIDENCE>> ELSE <<>>)
    \o (IF vo.requiere_tool /\ ~TruthyStr(vo.tool_sugerida) THEN <<W_NO_TOOL>> ELSE <<>>)

\* C10: the three soft rules each add their warning and nothing else: past
\* the hard rule, estado_valido and the errors are as the hard rule left
\* them, and the warnings are those before plus one per soft rule that fired.
C10_SoftRulesWarnOnly ==
    (Validated /\ HardRulesRan) =>
        LET vo == Get(vendor_output)
            hard == rule_payment_sin_confirmados(
                        parse_validation(Get(observer_response)), vo, commercial_state)
        IN /\ Verdict.estado_valido = hard.estado_valido
           /\ Verdict.errores = hard.errores
           /\ Verdict.warnings = hard.warnings \o SoftWarnings(vo)

\* C10 witness: the three soft rules fired on a verdict tier 1 found valid,
\* which stayed valid and without errors (payment suggested is not possible
\* together with no tool suggested, so two runs show the three).
C10_Witness ==
    /\ Validated /\ HardRulesRan /\ Verdict.estado_valido /\ Verdict.errores = <<>>
    /\ Get(vendor_output).confianza < LOW_CONFIDENCE
    /\ Get(vendor_output).tool_sugerida = Some("payment")
    /\ Get(vendor_output).intencion = "intencion_compra"
    /\ Verdict.warnings = <<W_PAYMENT_INTENT, W_LOW_CONFIDENCE>>

\* a valid verdict came out of the Validation Stage and the Decision Stage ran
DecidedOnValid == Decided /\ Validated /\ Verdict.estado_valido /\ state_valid

ExecutesTool(tool_name) ==
    /\ Get(graph_decision) = "execute_tool"
    /\ ~IsNone(vendor_action)
    /\ Get(vendor_action).accion = "tool"
    /\ Get(vendor_action).nombre_tool = Some(tool_name)
    /\ Get(vendor_action).input_tool =
         Some(ParamsOrEmpty(Get(vendor_output).tool_params_sugeridos))
    /\ pc = "execute_tool"

ScenarioB ==
    /\ HasOutput /\ Get(vendor_output).intencion = "confirmacion_compra"
    /\ Get(vendor_output).requiere_tool
    /\ Get(vendor_output).tool_sugerida = Some("payment")
    /\ HasState
    /\ Get(commercial_state).productos_confirmados = <<P1>>
    /\ Get(commercial_state).total_calculado = Some(4990)
    /\ Get(commercial_state).estado_valido

\* C11 as stated: in scenario B with a passing validation the Decision Stage
\* returns execute_tool with payment, whatever the stage.
C11_ScenarioB_AsStated ==
    (DecidedOnValid /\ ScenarioB) => ExecutesTool("payment")

\* C11 amended: in scenario B with a passing validation the Decision Stage
\* returns execute_tool with payment and the suggested parameters when the
\* stage is confirmando, and responds with the reply text in every other
\* stage.
C11_ScenarioB_Confirming ==
    (DecidedOnValid /\ ScenarioB) =>
        IF Get(commercial_state).etapa_comercial = "confirmando"
        THEN ExecutesTool("payment")
        ELSE RespondsWithReply

\* C11 witness: scenario B in stage confirmando, validated and decided.
C11_Witness ==
    /\ DecidedOnValid /\ ScenarioB
    /\ Get(commercial_state).etapa_comercial = "confirmando"
    /\ Get(observer_response).kind = "json"
    /\ Get(graph_decision) = "execute_tool"

AlwaysAllowed == {"search_product", "search_knowledge"}

SuggestsTool == HasOutput /\ TruthyStr(Get(vendor_output).tool_sugerida)

\* C12: with a valid verdict, a suggested tool that is neither in the valid
\* actions of the current stage nor search_product or search_knowledge makes
\* the Decision Stage respond with the reply text and no tool; so does payment
\* in stage nuevo.
C12_ToolOutsideStageResponds ==
    (DecidedOnValid /\ SuggestsTool /\ HasState) =>
        LET tool_name == Get(Get(vendor_output).tool_sugerida)
            cs == Get(commercial_state)
        IN /\ (/\ ~InSeq(tool_name, get_next_valid_actions(cs))
               /\ tool_name \notin AlwaysAllowed) => RespondsWithReply
           /\ (cs.etapa_comercial = "nuevo" /\ tool_name = "payment") => RespondsWithReply

\* C12 witness: scenario C with everything else in favour of the tool: stage
\* nuevo, payment wanted, a confirmed product, a total, a valid verdict.
C12_Witness ==
    /\ DecidedOnValid /\ ScenarioB
    /\ Get(commercial_state).etapa_comercial = "nuevo"
    /\ can_execute_tool(Get(commercial_state), "payment").ok
    /\ Get(graph_decision) = "response_only"

\* C13: in each of the nine stages, with estado_valido true and a valid
\* verdict, an interpretation that wants search_product or search_knowledge
\* makes the Decision Stage return execute_tool with that tool.
C13_SearchAlwaysAllowed ==
    (/\ DecidedOnValid /\ HasState /\ Get(commercial_state).estado_valido
     /\ Get(commercial_state).etapa_comercial \in Etapas
     /\ Get(vendor_output).requiere_tool
     /\ SuggestsTool /\ Get(Get(vendor_output).tool_sugerida) \in AlwaysAllowed)
    => ExecutesTool(Get(Get(vendor_output).tool_sugerida))

\* C13 witness: search_knowledge wanted in stage completado, whose valid
\* actions hold no tool, and executed.
C13_Witness ==
    /\ DecidedOnValid /\ HasState
    /\ Get(commercial_state).etapa_comercial = "completado"
    /\ get_next_valid_actions(Get(commercial_state)) = <<"respuesta">>
    /\ Get(vendor_output).tool_sugerida = Some("search_knowledge")
    /\ Get(graph_decision) = "execute_tool"

GateRan ==
    /\ entry = "state_governed"
    /\ graph_decision = Some("execute_tool")
    /\ pc \in {"update_state", "finalize", "refiner", "END"}

GateTool == Get(vendor_action).nombre_tool

\* C15: every run of the Tool Execution Gate with a tool name leaves exactly
\* one ToolCallRecord, for that tool, in tool_calls, also when the parameters
\* were rejected and no handler was called.
C15_OneRecordPerGateRun ==
    (GateRan /\ TruthyStr(GateTool)) =>
        /\ Len(tool_calls) = 1
        /\ tool_calls[1].tool_name = Get(GateTool)

\* the input does not satisfy what the tool declares: the input schema of a
\* built-in tool, the required parameters of a custom tool
ViolatesSchema(tool_name, input_tool) ==
    IF tool_name \in CustomTools
    THEN IsNone(input_tool) \/ Get(input_tool) \in {"empty", "malformed"}
    ELSE tool_name \in BuiltinTools /\ ~schema_accepts(tool_name, input_tool)

\* C16: after the Tool Execution Gate ran with a tool name, tool_success is
\* false and no handler was called whenever the state is invalid, the tool
\* name is unknown, or the input violates what the tool declares, for
\* built-in and custom tools alike.
C16_GateFailsClosed ==
    (GateRan /\ TruthyStr(GateTool)) =>
        ((\/ ~state_valid
          \/ Get(GateTool) \notin BuiltinTools \cup CustomTools
          \/ ViolatesSchema(Get(GateTool), Get(vendor_action).input_tool))
         => (tool_success = Some(FALSE) /\ dispatched = <<>>))

\* C17: the Tool Execution Gate always hands over to update_state, and a
\* handler that timed out or raised, or a tool name that is unknown, gives
\* tool_success false with an error value.
C17_FailuresAreResults ==
    (GateRan /\ TruthyStr(GateTool) /\ state_valid) =>
        /\ (\E i \in 1..Len(dispatched) :
               dispatched[i].outcome \in {"timeout", "timeout_local", "raise"})
           => (tool_success = Some(FALSE) /\ ~IsNone(tool_error))
        /\ Get(GateTool) \notin BuiltinTools \cup CustomTools
           => (tool_success = Some(FALSE) /\ ~IsNone(tool_error))

\* the stages of a turn, in the order the specification gives them
StageOrder ==
    <<"load_state", "vendor_interpret", "state_validation", "decide_action",
      "execute_tool", "update_state", "finalize", "refiner", "END">>

StageIndex(p) == CHOOSE i \in 1..Len(StageOrder) : StageOrder[i] = p

\* C18: every turn starts with load_state and every step of it goes from a
\* stage to the next one in the order load, interpretation, validation,
\* decision, tool execution, state update, finalization, refinement, tool
\* execution alone being optional; so tool execution follows decision and
\* refinement is the last stage.
C18_StagesInOrder ==
    [][/\ pc = "idle" => pc' = "load_state"
       /\ pc # "idle" =>
            /\ InSeq(pc, StageOrder) /\ InSeq(pc', StageOrder)
            /\ \/ StageIndex(pc') = StageIndex(pc) + 1
               \/ pc = "decide_action" /\ pc' = "update_state"]_vars

\* C19: when a turn of the state-governed graph is over, the commercial
\* state holds the intent of the turn's interpretation and the stamp of
\* update_state, also when the decision was response_only.
C19_UpdateInEveryTurn ==
    (entry = "state_governed" /\ pc = "END") =>
        /\ HasState /\ HasOutput
        /\ Get(commercial_state).intencion_actual = Some(Get(vendor_output).intencion)
        /\ Get(commercial_state).ultima_actualizacion = Some("update_state")

\* the intent-to-stage mapping of the specification
StageMapping(etapa, intencion, confirmados) ==
    CASE intencion = "consulta_producto" -> IF etapa = "nuevo" THEN "explorando" ELSE etapa
      [] intencion = "intencion_compra" -> "interesado"
      [] intencion = "confirmacion_compra" ->
            IF confirmados # <<>> THEN "confirmando" ELSE etapa
      [] OTHER -> etapa

\* the step of update_state_node to which the payment rule does not apply
PaymentRuleApplies ==
    /\ ~IsNone(vendor_action)
    /\ Get(vendor_action).nombre_tool = Some("payment")
    /\ ToolSuccessOrTrue(tool_success)

\* C20: a State Update step on an interpretation sets the stage to what the
\* mapping gives for the stage before, the intent and the confirmed products
\* (explorando only from nuevo, interesado, confirmando only with confirmed
\* products, unchanged for every other intent), the payment rule apart.
C20_IntentStageMapping ==
    [][(/\ pc = "update_state" /\ pc' = "finalize"
        /\ HasState /\ HasOutput /\ ~PaymentRuleApplies) =>
          LET before == Get(commercial_state)
          IN Get(commercial_state').etapa_comercial =
                StageMapping(before.etapa_comercial, Get(vendor_output).intencion,
                             before.productos_confirmados)]_vars

\* C20 witness: update_state ran on a purchase confirmation with a confirmed
\* product after a tool other than payment, and the stage is confirmando.
C20_Witness ==
    /\ pc = "finalize" /\ HasState /\ HasOutput /\ ~PaymentRuleApplies
    /\ Get(commercial_state).ultima_actualizacion = Some("update_state")
    /\ Get(vendor_output).intencion = "confirmacion_compra"
    /\ Get(commercial_state).productos_confirmados # <<>>
    /\ Get(commercial_state).etapa_comercial = "confirmando"
    /\ tool_calls # <<>>

\* the handler of payment was called in this turn and answered success
PaymentSucceeded ==
    /\ \E i \in 1..Len(dispatched) :
          dispatched[i].tool = "payment" /\ dispatched[i].outcome = "ok"
    /\ tool_success = Some(TRUE)

\* C21: a State Update step moves the stage to pagando only when the tool
\* executed in the turn was payment and it returned success; a failed,
\* rejected or skipped payment, or the success of any other tool, never moves
\* the stage to pagando.
C21_PayingOnlyOnPaidPayment ==
    [][(/\ pc = "update_state" /\ HasState
        /\ Get(commercial_state).etapa_comercial # "pagando"
        /\ Get(commercial_state').etapa_comercial = "pagando")
       => PaymentSucceeded]_vars

\* C21 witness: payment was dispatched with complete input, answered
\* success, and update_state then ran on a greeting: the stage is pagando.
C21_Witness ==
    /\ pc = "finalize" /\ HasState /\ HasOutput /\ PaymentSucceeded
    /\ Get(vendor_output).intencion = "saludo"
    /\ Get(commercial_state).ultima_actualizacion = Some("update_state")
    /\ Get(commercial_state).etapa_comercial = "pagando"

\* the funnel order of the stages (vendor_state.py:13-22), abandonado aside
FunnelOrder ==
    <<"nuevo", "explorando", "interesado", "cotizando", "negociando",
      "confirmando", "pagando", "completado">>

FunnelIndex(etapa) ==
    IF etapa = "abandonado" THEN 0
    ELSE CHOOSE i \in 1..Len(FunnelOrder) : FunnelOrder[i] = etapa

\* C22: no step of a turn moves the stage of an existing state to an earlier
\* funnel stage; the only regression allowed is to abandonado.
C22_StageNeverRegresses ==
    [][(HasState /\ commercial_state' # None
        /\ Get(commercial_state).etapa_comercial # "abandonado"
        /\ Get(commercial_state').etapa_comercial # "abandonado")
       => FunnelIndex(Get(commercial_state').etapa_comercial)
            >= FunnelIndex(Get(commercial_state).etapa_comercial)]_vars

\* the state-governed turn has just left load_state_node
Loaded == entry = "state_governed" /\ pc = "vendor_interpret"

\* C23: load yields the persisted stage when it is one of the nine stage
\* names and nuevo otherwise, always with empty detected and confirmed
\* products and with both validity flags true.
C23_LoadState ==
    Loaded =>
        /\ HasState
        /\ Get(commercial_state).etapa_comercial =
              (IF lead_memory \in {Some(e) : e \in Etapas}
               THEN Get(lead_memory) ELSE "nuevo")
        /\ Get(commercial_state).productos_detectados = <<>>
        /\ Get(commercial_state).productos_confirmados = <<>>
        /\ Get(commercial_state).estado_valido = TRUE
        /\ state_valid = TRUE

\* C23 witness: a lead persisted at negociando was loaded at negociando
C23_Witness ==
    /\ Loaded /\ HasState
    /\ lead_memory = Some("negociando")
    /\ Get(commercial_state).etapa_comercial = "negociando"
    /\ Get(commercial_state).productos_detectados = <<>>

\* a persisted value outside the nine names was loaded as nuevo
C23_UnknownIsNew ==
    /\ Loaded /\ HasState
    /\ lead_memory = Some("vip")
    /\ Get(commercial_state).etapa_comercial = "nuevo"

\* a state-governed turn has ended and its State Update Stage ran
EndedAfterUpdate ==
    /\ entry = "state_governed" /\ pc = "END" /\ HasState
    /\ Get(commercial_state).ultima_actualizacion = Some("update_state")

\* C24: when a turn ends after the State Update Stage, loading the lead's
\* memory record again (the next turn's load) yields the stage the turn
\* ended with.
C24_StagePersisted ==
    EndedAfterUpdate =>
        load_state(lead_memory).etapa_comercial =
            Get(commercial_state).etapa_comercial

\* the last call on the store
Call == Get(store_call)
Called(op) == ~IsNone(store_call) /\ Call.op = op

\* C25: a step changes the active collection only if it is an approve_rule
\* call that pops an entry of the pending collection and appends that entry's
\* rule; proposals (controlled and legacy), rejections and listings leave the
\* active collection as it was.
C25_ActiveOnlyByApprove ==
    [][active_rules' # active_rules =>
         /\ Get(store_call').op = "approve_rule"
         /\ \E k \in 1..Len(pending_rules) :
               /\ pending_rules' = RemoveAt(pending_rules, k)
               /\ active_rules' =
                    LastN(Append(active_rules, pending_rules[k].regla), ACTIVE_CAP)]_vars

\* C25 witness: a rule the controlled refinement proposed was approved and is
\* now active
C25_Witness ==
    /\ Called("approve_rule") /\ Call.ret
    /\ Call.entry = Some(PendingRule(R_STOCK, Some("Patrón detectado")))
    /\ InSeq(R_STOCK, active_rules)

\* C26: however often the refinement runs with the same proposed rules, no
\* rule string is in the pending collection more than once.
C26_PendingHasNoDuplicates ==
    \A i, j \in 1..Len(pending_rules) :
        pending_rules[i].regla = pending_rules[j].regla => i = j

\* how often a rule is in the active collection
ActiveCount(rule) == Cardinality({i \in 1..Len(active_rules) : active_rules[i] = rule})

\* approve_rule was just called with an index inside the pending collection
\* and returned true
Approved == Called("approve_rule") /\ Call.ret /\ Call.rule_index >= 0

\* C27: after approve_rule returned true, get_pending_rules no longer lists
\* the approved entry and the active collection holds its rule exactly once.
C27_ApproveRoundTrip ==
    Approved =>
        /\ ~InSeq(Get(Call.entry), get_pending_rules(pending_rules, TRUE))
        /\ ActiveCount(Get(Call.entry).regla) = 1

\* C28: the pending collection never holds more than 30 entries and the
\* active one never more than 50 rules; a refinement write leaves the last 30
\* of the old entries followed by the new ones, every newly proposed rule
\* among them, and an approval leaves the last 50 of the old rules followed by
\* the approved one, both in their order.
C28_BoundedOldestFirst ==
    [][/\ Len(pending_rules) <= 30 /\ Len(pending_rules') <= 30
       /\ Len(active_rules) <= 50 /\ Len(active_rules') <= 50
       /\ (/\ Get(store_call').op \in {"propose_rules", "refine"}
           /\ pending_rules' # pending_rules)
          => /\ \E n \in 1..Len(pending_rules') :
                   pending_rules' =
                       LastN(pending_rules \o LastN(pending_rules', n), 30)
             /\ \A i \in 1..Len(Get(store_call').proposed) :
                   LET rule == Get(store_call').proposed[i]
                   IN (\A k \in 1..Len(pending_rules) : pending_rules[k].regla # rule)
                      => \E k \in 1..Len(pending_rules') :
                            pending_rules'[k].regla = rule
       /\ active_rules' # active_rules
          => active_rules' =
                LastN(Append(active_rules, active_rules'[Len(active_rules')]), 50)
      ]_vars

\* C28 witness: two rules were proposed to a full pending collection and the
\* entry that became the oldest was approved into a full active collection;
\* the two oldest pending entries and the oldest active rule are gone
C28_Witness ==
    /\ Called("approve_rule") /\ Call.ret
    /\ Len(pending_rules) = 29 /\ Len(active_rules) = 50
    /\ pending_rules[1].regla = Filler(4)
    /\ pending_rules[29].regla = R_STOCK
    /\ active_rules[1] = Filler(102)
    /\ active_rules[50] = Filler(3)

\* the turn's verdict carries at least one error or warning
VerdictHasFindings ==
    /\ ~IsNone(observer_validation)
    /\ (Verdict.errores # <<>> \/ Verdict.warnings # <<>>)

\* the guard of propose_rules taken alone (refiner.py:141-142): called with a
\* verdict without errors and warnings it proposes nothing and leaves the
\* pending collection as it was
ProposeRulesGuard ==
    [][(Get(store_call').op = "propose_rules" /\ ~VerdictHasFindings')
       => (Get(store_call').proposed = <<>> /\ pending_rules' = pending_rules)]_vars

\* C29: a turn ends with a rule proposal, or with a pending collection that
\* was written, only if its verdict carries an error or a warning.
C29_RefinementOnlyOnFindings ==
    (pc = "END" /\ (refiner_output \notin {None, Some(<<>>)} \/ pending_rules # <<>>))
        => VerdictHasFindings

\* C30: a state-governed turn whose verdict carries an error or a warning
\* ends with the rule-proposal step having run on it.
C30_FindingsReachProposal ==
    (entry = "state_governed" /\ pc = "END" /\ VerdictHasFindings)
        => ~IsNone(refiner_output)

\* C31: a call during which the store is not there, or a store call fails,
\* returns its failure value (false from approve_rule and reject_rule, an
\* empty list from get_pending_rules) and persists nothing: both collections
\* are as they were.
C31_StoreFaultPersistsNothing ==
    [][(store_ops' # store_ops /\ Get(store_call').fault # "none")
       => /\ pending_rules' = pending_rules
          /\ active_rules' = active_rules
          /\ Get(store_call').op \in {"approve_rule", "reject_rule"}
                => ~Get(store_call').ret
          /\ Get(store_call').listed = <<>>]_vars

\* the same when the store is not there at all (no client)
StoreDownPersistsNothing ==
    [][(store_ops' # store_ops /\ Get(store_call').fault = "down")
       => /\ pending_rules' = pending_rules
          /\ active_rules' = active_rules
          /\ Get(store_call').op \in {"approve_rule", "reject_rule"}
                => ~Get(store_call').ret
          /\ Get(store_call').listed = <<>>]_vars

\* C32: the gate hands the log to the telemetry task and returns without
\* waiting for it, with the tool's result recorded, whether or not the log
\* could be scheduled; and however the task ends later (sent, failed, timed
\* out), it changes neither the tool result, tool_success, the tool call
\* records, the response nor the position of the turn.
C32_TelemetryFireAndForget ==
    [][/\ Len(telemetry') > Len(telemetry)
          => /\ pc' = "update_state"
             /\ telemetry'[Len(telemetry')].status \in {"scheduled", "unscheduled"}
             /\ tool_success' = Some(telemetry'[Len(telemetry')].success)
             /\ Len(tool_calls') = Len(tool_calls) + 1
             /\ tool_calls'[Len(tool_calls')].success = Get(tool_success')
       /\ (Len(telemetry') = Len(telemetry) /\ telemetry' # telemetry)
          => UNCHANGED <<pc, tool_result, tool_success, tool_error, tool_calls,
                         final_response>>
      ]_vars

\* C32 witness: the response of a turn whose tool succeeded is finalized and
\* the telemetry log of that tool call timed out
C32_Witness ==
    /\ pc = "refiner" /\ ~IsNone(final_response)
    /\ tool_success = Some(TRUE)
    /\ Len(telemetry) = 1 /\ telemetry[1].status = "timeout"
    /\ Len(tool_calls) = 1 /\ tool_calls[1].success

\* the raw failure texts of the tools: an exception's text, an HTTP status,
\* a schema validation error
RawErrorTexts == {RAISED, "HTTP 500", "HTTP 500 db_id=xx", "validation error"}

\* what the handlers, the router and the gate put in front of a raw text
ErrorPrefixes ==
    {"", "Error ", "Error al ejecutar tool: ", "Error al programar seguimiento: ",
     "Error en CRM: ", "Error al buscar: ", "Error al ejecutar: ",
     "Parámetros inválidos: "}

CarriesRawError(text) ==
    \E prefix \in ErrorPrefixes, raw \in RawErrorTexts : text = prefix \o raw

\* C33: when the tool call of the turn failed, no text of the final response
\* carries a raw failure text.
C33_NoRawErrorInResponse ==
    (~IsNone(final_response) /\ tool_success = Some(FALSE))
        => \A i \in 1..Len(Get(final_response)) :
              ~CarriesRawError(Get(final_response)[i])

\* the vendor's answer of a legacy turn could not be parsed, at its first
\* attempt
Unparsed ==
    /\ entry = "generate_response" /\ retry_count = 0
    /\ vendor_action \in {Some(parse_response_default(c)) : c \in UnparsableContents}

\* C34: a turn whose interpretation could not be parsed executes no tool and
\* ends with a non-empty reply.
C34_ScenarioE ==
    (pc = "END" /\ Unparsed)
        => /\ tool_calls = <<>> /\ dispatched = <<>>
           /\ ~IsNone(final_response)
           /\ \E i \in 1..Len(Get(final_response)) : Get(final_response)[i] # ""

\* the node of the turn's graph that runs next can run: no node is left with
\* a state it raises on
NodeCanRun ==
    ENABLED (\/ LoadStateNode \/ VendorInterpretNode \/ StateValidationNode
             \/ DecideActionNode \/ ExecuteToolNode \/ UpdateStateNode
             \/ FinalizeResponseNode \/ VendorNode \/ ToolRouterNode
             \/ VendorRefineNode \/ ResponseBuilderNode \/ ObserverNode
             \/ RetryDecisionNode \/ RefinerNode)

LoadedStage == load_state(lead_memory).etapa_comercial

\* a call of the payment tool was recorded or reached its handler
PaymentRan ==
    \/ \E i \in 1..Len(tool_calls) : tool_calls[i].tool_name = "payment"
    \/ \E i \in 1..Len(dispatched) : dispatched[i].tool = "payment"

\* C36: in the state-governed graph as wired, productos_confirmados is empty
\* in every turn, at the Decision Stage and after it; so no turn goes to
\* execute_tool with the tool payment, payment is never run, and a stage of
\* confirmando or pagando is only ever the stage the turn was loaded with.
C36_PaymentUnreachable ==
    (entry = "state_governed" /\ HasState) =>
        /\ Get(commercial_state).productos_confirmados = <<>>
        /\ (pc = "execute_tool" /\ ~IsNone(vendor_action))
               => Get(vendor_action).nombre_tool # Some("payment")
        /\ ~PaymentRan
        /\ Get(commercial_state).etapa_comercial \in {"confirmando", "pagando"}
               => Get(commercial_state).etapa_comercial = LoadedStage

\* C36 witness: a turn loaded in confirmando whose interpretation confirms
\* the purchase and asks for payment on a valid verdict has ended after the
\* State Update Stage ran, with another tool than payment, and the stage is
\* still the loaded one; and the Decision Stage answered a payment request.
C36_Witness ==
    /\ entry = "state_governed" /\ pc = "END" /\ HasState /\ HasOutput
    /\ lead_memory = Some("confirmando")
    /\ Get(vendor_output).intencion = "confirmacion_compra"
    /\ Get(commercial_state).ultima_actualizacion = Some("update_state")
    /\ tool_calls # <<>>
    /\ state_valid

\* C36 witness of the refused payment: the interpretation asked for payment
\* in confirmando and the turn ended with a reply and no tool
C36_PaymentRefused ==
    /\ entry = "state_governed" /\ pc = "END" /\ HasOutput
    /\ lead_memory = Some("confirmando")
    /\ Get(vendor_output).tool_sugerida = Some("payment")
    /\ Get(vendor_output).requiere_tool
    /\ graph_decision = Some("response_only")
    /\ tool_calls = <<>>


\* the step is a call of approve_rule or reject_rule
ApproveOrRejectStep ==
    /\ store_ops' = store_ops + 1
    /\ ~IsNone(store_call')
    /\ Get(store_call').op \in {"approve_rule", "reject_rule"}

\* C37: approve_rule and reject_rule called with an index that denotes no
\* pending entry (index >= len(pending), or a negative index) return false
\* and leave the pending and the active collection as they were.
C37_InvalidIndexRefused ==
    [][(/\ ApproveOrRejectStep
        /\ \/ Get(store_call').rule_index >= Len(pending_rules)
           \/ Get(store_call').rule_index < 0)
          => /\ Get(store_call').ret = FALSE
             /\ pending_rules' = pending_rules
             /\ active_rules' = active_rules]_vars

\* the part of C37 the length test decides: an index at or beyond the end
C37_IndexBeyondEndRefused ==
    [][(/\ ApproveOrRejectStep
        /\ Get(store_call').rule_index >= Len(pending_rules))
          => /\ Get(store_call').ret = FALSE
             /\ pending_rules' = pending_rules
             /\ active_rules' = active_rules]_vars


\* the step is a call of approve_rule
ApproveStep ==
    /\ store_ops' = store_ops + 1
    /\ ~IsNone(store_call')
    /\ Get(store_call').op = "approve_rule"

\* C38: approve_rule is all-or-nothing. When it returns false, a store write
\* failing part-way included, neither collection has changed: a rule taken
\* out of pending is never lost without being in active.
C38_ApproveAllOrNothing ==
    [][(ApproveStep /\ Get(store_call').ret = FALSE)
          => /\ pending_rules' = pending_rules
             /\ active_rules' = active_rules]_vars

\* C38 without the fault between the two writes: a refused call (no client,
\* failed read, no such entry) changes nothing
C38_RefusalChangesNothing ==
    [][(/\ ApproveStep
        /\ Get(store_call').ret = FALSE
        /\ Get(store_call').fault # "between")
          => /\ pending_rules' = pending_rules
             /\ active_rules' = active_rules]_vars


\* the two calls have returned, approve_rule with True
BothReturned == approver.at = "done" /\ approver.ret /\ saver.at = "done"

\* a rule is the regla of an entry of the stored pending collection
IsPending(rule) == \E i \in 1..Len(pending_rules) : pending_rules[i].regla = rule

C39_ApprovedIsActive ==
    (approver.at = "done" /\ approver.ret)
        => InSeq(Get(approver.entry).regla, active_rules)

\* a step from retry_decision back to vendor
RetryTaken == pc = "retry_decision" /\ pc' = "vendor"

\* C40: the legacy graph's loop vendor -> observer -> retry_decision ->
\* vendor ends. Every retry adds one to retry_count and none is taken once
\* retry_count >= MAX_RETRY_ATTEMPTS, so retry_count stays within the
\* maximum, the vendor node runs at most MAX_RETRY_ATTEMPTS + 1 = 3 times in
\* a turn, and every turn reaches END.
C40_RetryLoopTerminates ==
    /\ [][RetryTaken => /\ retry_count < MAX_RETRY_ATTEMPTS
                        /\ retry_count' = retry_count + 1]_vars
    /\ [][retry_count' # retry_count => RetryTaken]_vars
    /\ [](/\ retry_count <= MAX_RETRY_ATTEMPTS
          /\ iteration_count <= MAX_RETRY_ATTEMPTS + 1)
    /\ <>(pc = "END")

\* C40 witness: a turn has ended after the vendor node ran three times, two
\* retries taken and a third critical failure observed
C40_Witness ==
    /\ pc = "END" /\ entry = "generate_response"
    /\ retry_count = MAX_RETRY_ATTEMPTS
    /\ iteration_count = MAX_RETRY_ATTEMPTS + 1
    /\ ~IsNone(observer_output)
    /\ has_critical_failure(Get(observer_output).fallas)


====
